---- MODULE Spec2Model ----
(***************************************************************************)
(* Model of the interactive shell: the quote/escape-aware tokenizer and    *)
(* the parser (src/src/parser.rs), the pipeline executor                   *)
(* (src/src/commands/executor.rs) and the read-eval loop (src/src/main.rs).*)
(*                                                                         *)
(* Text is a sequence of one-character strings; a token is such a          *)
(* sequence too, so "a|b" is <<"a", "|", "b">>.                            *)
(***************************************************************************)
EXTENDS Integers, Sequences, FiniteSets, TLC

(***************************************************************************)
(* Bounds of the model.                                                    *)
(***************************************************************************)
\* longest input line given to the tokenizer
MaxLen == 5
\* longest pipeline handed to run
MaxStages == 3
\* longest pipeline handed to run whose stages may carry redirections
MaxRedirStages == 2
\* the longest token sequence handed to the parser
MaxToks == 5
\* characters an OS pipe holds before a writer blocks
PipeCap == 1

(***************************************************************************)
(* Characters.  WhiteSpace stands for the characters char::is_whitespace   *)
(* accepts; "a" stands for every character the tokenizer does not single   *)
(* out.                                                                    *)
(***************************************************************************)
BackSlash == "\\"
SingleQuote == "'"
DoubleQuote == "\""
Pipe == "|"
WhiteSpace == {" ", "\t"}
Alphabet == {"a", BackSlash, SingleQuote, DoubleQuote, Pipe} \cup WhiteSpace

\* const SPECIAL_CHARS: the characters a backslash escapes inside double quotes
SPECIAL_CHARS == {DoubleQuote, BackSlash}

RECURSIVE SeqsUpTo(_, _)
SeqsUpTo(S, k) ==
    IF k = 0 THEN {<< >>}
    ELSE LET shorter == SeqsUpTo(S, k - 1)
         IN  shorter \cup {Append(s, c) : s \in {t \in shorter : Len(t) = k - 1}, c \in S}

Lines == SeqsUpTo(Alphabet, MaxLen)

VARIABLES
    tz,        \* the Tokenizer struct: chars (unread input), state, tokens, current_token
    input,     \* the line handed to parse_input
    commands,  \* the Vec<ParsedCommand> parse_input returns
    tk_pc,     \* where parse_input stands: "off", "tokenize", "split", "parsed"
    n,               \* pipeline.len() of the pipeline handed to run
    pipeline,        \* the stage descriptors the iterator of run has yielded so far
    log,             \* the status each handled stage returned to run ("Continue", "Exit", "Err")
    ex_pc,           \* where run stands: "off", "start", "loop", "write", "wait", "returned"
    previous_output, \* run's PipeState local
    result,          \* what run returned
    children,        \* the process spawned for each stage, if any
    pipes,           \* pipes[k]: the OS pipe between stage k and stage k + 1, if any
    fs,              \* the files redirections name
    tty,             \* what was written to the shell's own standard output
    wbuf,            \* what stdin.write_all(data) has not written yet
    main_pc,   \* where main stands: "off", "startup", "readline", "ended"
    rl,        \* what the last editor.readline returned: "Line", "Interrupted", "Eof", "Error"
    reads,     \* how many times main has called editor.readline
    history,   \* HistoryManager.entries
    histfile,  \* CommandRegistry::get_histfile_path(): the HISTFILE path, or NoPath
    err_out,   \* the lines main has written to standard error
    cwd        \* the current working directory of the shell process

tkVars == <<tz, input, commands, tk_pc>>

exVars == <<n, pipeline, log, ex_pc, previous_output, result, children, pipes, fs, tty, wbuf>>

mainVars == <<main_pc, rl, reads, history, histfile, err_out, cwd>>

vars == <<tz, input, commands, tk_pc,
          n, pipeline, log, ex_pc, previous_output, result, children, pipes, fs, tty, wbuf,
          main_pc, rl, reads, history, histfile, err_out, cwd>>

(***************************************************************************)
(* Tokenizer (parser.rs 118-240).                                          *)
(*                                                                         *)
(* tokens_esc and current_esc are history fields the source does not       *)
(* have: current_esc records that handle_escaped appended a pipe character *)
(* to the token being built, tokens_esc records it for each emitted token. *)
(***************************************************************************)
finish_token_always(t) ==
    [t EXCEPT !.tokens = Append(t.tokens, t.current_token),
              !.tokens_esc = Append(t.tokens_esc, t.current_esc),
              !.current_token = << >>,
              !.current_esc = FALSE]

finish_token_closed(t) ==
    IF t.current_token # << >> /\ t.state = "Normal"
    THEN [t EXCEPT !.tokens = Append(t.tokens, t.current_token),
                   !.tokens_esc = Append(t.tokens_esc, t.current_esc),
                   !.current_token = << >>,
                   !.current_esc = FALSE]
    ELSE t

finish_token(t) ==
    IF t.current_token # << >>
    THEN [t EXCEPT !.tokens = Append(t.tokens, t.current_token),
                   !.tokens_esc = Append(t.tokens_esc, t.current_esc),
                   !.current_token = << >>,
                   !.current_esc = FALSE]
    ELSE t

push_char(t, c) == [t EXCEPT !.current_token = Append(t.current_token, c)]

handle_normal(t, c) ==
    CASE c = BackSlash   -> [t EXCEPT !.state = "Escaped"]
      [] c = SingleQuote -> [t EXCEPT !.state = "InSingleQuote"]
      [] c = DoubleQuote -> [t EXCEPT !.state = "InDoubleQuote"]
      [] c = Pipe        -> LET f == finish_token(t)
                            IN  [f EXCEPT !.tokens = Append(f.tokens, <<Pipe>>),
                                          !.tokens_esc = Append(f.tokens_esc, FALSE)]
      [] c \in WhiteSpace -> finish_token(t)
      [] OTHER           -> push_char(t, c)

handle_single_quote_escaping(t, c) ==
    CASE c = SingleQuote -> [t EXCEPT !.state = "Normal"]
      [] c = BackSlash   -> [t EXCEPT !.state = "Escaped"]
      [] OTHER           -> push_char(t, c)

handle_single_quote(t, c) ==
    IF c = SingleQuote
    THEN [t EXCEPT !.state = "Normal"]
    ELSE push_char(t, c)

handle_double_quote_always(t, c) ==
    CASE c = BackSlash -> [t EXCEPT !.state = "EscapedInDoubleQuote"]
      [] c = DoubleQuote -> [t EXCEPT !.state = "Normal"]
      [] OTHER -> push_char(t, c)

handle_double_quote_closing(t, c) ==
    CASE c = BackSlash ->
            IF t.chars # << >> /\ Head(t.chars) \in SPECIAL_CHARS
            THEN [t EXCEPT !.state = "EscapedInDoubleQuote"]
            ELSE push_char(t, c)
      [] c = DoubleQuote -> [finish_token_always(t) EXCEPT !.state = "Normal"]
      [] OTHER -> push_char(t, c)

\* t.chars is the input after c, so its head is what chars.peek() returns
handle_double_quote(t, c) ==
    CASE c = BackSlash ->
            IF t.chars # << >> /\ Head(t.chars) \in SPECIAL_CHARS
            THEN [t EXCEPT !.state = "EscapedInDoubleQuote"]
            ELSE push_char(t, c)
      [] c = DoubleQuote -> [t EXCEPT !.state = "Normal"]
      [] OTHER -> push_char(t, c)

handle_escaped_finishing(t, c) ==
    finish_token([t EXCEPT !.current_token = Append(t.current_token, c),
                           !.current_esc = t.current_esc \/ c = Pipe,
                           !.state = "Normal"])

handle_escaped(t, c) ==
    [t EXCEPT !.current_token = Append(t.current_token, c),
              !.current_esc = t.current_esc \/ c = Pipe,
              !.state = "Normal"]

handle_escaped_in_double_quote(t, c) ==
    [t EXCEPT !.current_token = Append(t.current_token, c),
              !.state = "InDoubleQuote"]

process_char(t, c) ==
    CASE t.state = "Normal"               -> handle_normal(t, c)
      [] t.state = "InSingleQuote"        -> handle_single_quote(t, c)
      [] t.state = "InDoubleQuote"        -> handle_double_quote(t, c)
      [] t.state = "Escaped"              -> handle_escaped(t, c)
      [] t.state = "EscapedInDoubleQuote" -> handle_escaped_in_double_quote(t, c)

TokenizerNew(line) ==
    [chars |-> line, state |-> "Normal", tokens |-> << >>, current_token |-> << >>,
     tokens_esc |-> << >>, current_esc |-> FALSE]

\* Tokenizer::tokenize: every character, then the final finish_token
RECURSIVE tokenize(_)
tokenize(t) ==
    IF t.chars = << >> THEN finish_token(t).tokens
    ELSE tokenize(process_char([t EXCEPT !.chars = Tail(t.chars)], Head(t.chars)))

tokenize_input(line) == tokenize(TokenizerNew(line))

(***************************************************************************)
(* Parser (parser.rs 11-111).                                              *)
(***************************************************************************)
\* Option<PathBuf>::None; no token is empty, so no path is
NoPath == << >>

from_operator_loose(op) ==
    CASE op = <<">">> \/ op = <<"1", ">">>            -> "StdoutTruncate"
      [] op = <<">", ">">> \/ op = <<"1", ">", ">">>  -> "StdoutAppend"
      [] op = <<"2", ">">> \/ op = <<"2">>            -> "StderrTruncate"
      [] op = <<"2", ">", ">">>                       -> "StderrAppend"
      [] OTHER                                        -> "None"

from_operator(op) ==
    CASE op = <<">">> \/ op = <<"1", ">">>            -> "StdoutTruncate"
      [] op = <<">", ">">> \/ op = <<"1", ">", ">">>  -> "StdoutAppend"
      [] op = <<"2", ">">>                            -> "StderrTruncate"
      [] op = <<"2", ">", ">">>                       -> "StderrAppend"
      [] OTHER                                        -> "None"

\* the assignments of the four match arms
set_redirect(pc, rt, path) ==
    CASE rt = "StdoutTruncate" ->
           [pc EXCEPT !.stdout_redirect = path, !.stdout_redirect_append = FALSE]
      [] rt = "StdoutAppend" ->
           [pc EXCEPT !.stdout_redirect = path, !.stdout_redirect_append = TRUE]
      [] rt = "StderrTruncate" ->
           [pc EXCEPT !.stderr_redirect = path, !.stderr_redirect_append = FALSE]
      [] rt = "StderrAppend" ->
           [pc EXCEPT !.stderr_redirect = path, !.stderr_redirect_append = TRUE]

RECURSIVE parse_tokens_keep_target(_, _, _)
parse_tokens_keep_target(toks, i, pc) ==
    IF i > Len(toks) THEN pc
    ELSE LET rt == from_operator(toks[i]) IN
         IF rt = "None"
         THEN parse_tokens_keep_target(toks, i + 1,
                                       [pc EXCEPT !.args = Append(pc.args, toks[i])])
         ELSE IF i + 1 > Len(toks) THEN pc
              ELSE parse_tokens_keep_target(toks, i + 1, set_redirect(pc, rt, toks[i + 1]))

RECURSIVE parse_tokens_first_wins(_, _, _)
parse_tokens_first_wins(toks, i, pc) ==
    IF i > Len(toks) THEN pc
    ELSE LET rt == from_operator(toks[i]) IN
         IF rt = "None"
         THEN parse_tokens_first_wins(toks, i + 1,
                                      [pc EXCEPT !.args = Append(pc.args, toks[i])])
         ELSE IF i + 1 > Len(toks) THEN pc
              ELSE LET q == set_redirect(pc, rt, toks[i + 1])
                       taken == IF rt \in {"StdoutTruncate", "StdoutAppend"}
                                THEN pc.stdout_redirect # << >>
                                ELSE pc.stderr_redirect # << >>
                   IN  parse_tokens_first_wins(toks, i + 2, IF taken THEN pc ELSE q)

RECURSIVE parse_tokens_dangling_clears(_, _, _)
parse_tokens_dangling_clears(toks, i, pc) ==
    IF i > Len(toks) THEN pc
    ELSE LET rt == from_operator(toks[i]) IN
         IF rt = "None"
         THEN parse_tokens_dangling_clears(toks, i + 1,
                                           [pc EXCEPT !.args = Append(pc.args, toks[i])])
         ELSE IF i + 1 > Len(toks) THEN set_redirect(pc, rt, << >>)
              ELSE parse_tokens_dangling_clears(toks, i + 2, set_redirect(pc, rt, toks[i + 1]))

RECURSIVE parse_tokens_dangling_flags(_, _, _)
parse_tokens_dangling_flags(toks, i, pc) ==
    IF i > Len(toks) THEN pc
    ELSE LET rt == from_operator(toks[i]) IN
         IF rt = "None"
         THEN parse_tokens_dangling_flags(toks, i + 1,
                                          [pc EXCEPT !.args = Append(pc.args, toks[i])])
         ELSE IF i + 1 > Len(toks)
              THEN [pc EXCEPT !.stdout_redirect_append = @ \/ rt = "StdoutAppend",
                              !.stderr_redirect_append = @ \/ rt = "StderrAppend"]
              ELSE parse_tokens_dangling_flags(toks, i + 2, set_redirect(pc, rt, toks[i + 1]))

\* the while loop of parse_command_line: i is the next token the iterator yields
RECURSIVE parse_tokens(_, _, _)
parse_tokens(toks, i, pc) ==
    IF i > Len(toks) THEN pc
    ELSE LET rt == from_operator(toks[i]) IN
         IF rt = "None"
         THEN parse_tokens(toks, i + 1, [pc EXCEPT !.args = Append(pc.args, toks[i])])
         ELSE IF i + 1 > Len(toks)
              THEN pc   \* "Syntax error: expected file path after redirect"
              ELSE parse_tokens(toks, i + 2, set_redirect(pc, rt, toks[i + 1]))

parse_command_line_last(toks) ==
    parse_tokens(toks, 2,
        [command |-> toks[Len(toks)], args |-> << >>,
         stdout_redirect |-> << >>, stderr_redirect |-> << >>,
         stdout_redirect_append |-> FALSE, stderr_redirect_append |-> FALSE])

parse_command_line(toks) ==
    parse_tokens(toks, 2,
        [command |-> toks[1], args |-> << >>,
         stdout_redirect |-> NoPath, stderr_redirect |-> NoPath,
         stdout_redirect_append |-> FALSE, stderr_redirect_append |-> FALSE])

\* the closure |t| t == "|" of parse_input
is_separator(tok) == tok = <<Pipe>>

\* the token positions at which tokens.split(...) cuts
SplitPoints(toks) == {i \in DOMAIN toks : is_separator(toks[i])}

\* slice::split: the runs of tokens between the separators, empty runs included
RECURSIVE split(_, _, _)
split(toks, i, seg) ==
    IF i > Len(toks) THEN <<seg>>
    ELSE IF is_separator(toks[i])
         THEN <<seg>> \o split(toks, i + 1, << >>)
         ELSE split(toks, i + 1, Append(seg, toks[i]))

RECURSIVE parse_segments_reversed(_)
parse_segments_reversed(segs) ==
    IF segs = << >> THEN << >>
    ELSE IF Head(segs) = << >>
         THEN parse_segments_reversed(Tail(segs))
         ELSE parse_segments_reversed(Tail(segs)) \o <<parse_command_line(Head(segs))>>

RECURSIVE parse_segments(_)
parse_segments(segs) ==
    IF segs = << >> THEN << >>
    ELSE IF Head(segs) = << >>
         THEN parse_segments(Tail(segs))
         ELSE <<parse_command_line(Head(segs))>> \o parse_segments(Tail(segs))

parse_input(toks) == parse_segments(split(toks, 1, << >>))

(***************************************************************************)
(* parse_input as steps: one character per step, then the final            *)
(* finish_token, then the split into stage descriptors.                    *)
(***************************************************************************)
TkInit ==
    /\ input \in Lines
    /\ tz = TokenizerNew(input)
    /\ commands = << >>
    /\ tk_pc = "tokenize"

\* while let Some(c) = self.chars.next() { self.process_char(c) }
ProcessChar ==
    /\ tk_pc = "tokenize"
    /\ tz.chars # << >>
    /\ tz' = process_char([tz EXCEPT !.chars = Tail(tz.chars)], Head(tz.chars))
    /\ UNCHANGED <<input, commands, tk_pc>>
    /\ UNCHANGED <<exVars, mainVars>>

\* end of input: self.finish_token(); self.tokens
FinishTokenize ==
    /\ tk_pc = "tokenize"
    /\ tz.chars = << >>
    /\ tz' = finish_token(tz)
    /\ tk_pc' = "split"
    /\ UNCHANGED <<input, commands>>
    /\ UNCHANGED <<exVars, mainVars>>

\* the for loop of parse_input over tokens.split(|t| t == "|")
ParseStages ==
    /\ tk_pc = "split"
    /\ commands' = parse_input(tz.tokens)
    /\ tk_pc' = "parsed"
    /\ UNCHANGED <<tz, input>>
    /\ UNCHANGED <<exVars, mainVars>>

TkNext == ProcessChar \/ FinishTokenize \/ ParseStages

(***************************************************************************)
(* parse_input on token sequences that hold redirection operators.  The    *)
(* line is written with every token in single quotes, which is how any     *)
(* token text reaches the parser, and the tokens are what the tokenizer    *)
(* makes of that line.                                                     *)
(***************************************************************************)
OperatorTokens ==
    { <<">">>, <<"1", ">">>, <<">", ">">>, <<"1", ">", ">">>, <<"2", ">">>, <<"2", ">", ">">> }

TokenTexts == OperatorTokens \cup { <<"a">>, <<"2">>, <<Pipe>> }

RECURSIVE QuotedLine(_)
QuotedLine(toks) ==
    IF toks = << >> THEN << >>
    ELSE <<SingleQuote>> \o Head(toks) \o <<SingleQuote>>
         \o (IF Len(toks) > 1 THEN <<" ">> ELSE << >>) \o QuotedLine(Tail(toks))

TkParseInit ==
    /\ \E toks \in SeqsUpTo(TokenTexts, MaxToks) : input = QuotedLine(toks)
    /\ tz = [TokenizerNew(<< >>) EXCEPT
                !.tokens = tokenize_input(input),
                !.tokens_esc = [i \in DOMAIN tokenize_input(input) |-> FALSE]]
    /\ commands = << >>
    /\ tk_pc = "split"

ParseNext == ParseStages


(***************************************************************************)
(* Executor (commands/executor.rs).                                        *)
(*                                                                         *)
(* The stage descriptors are ParsedCommand records as the parser builds    *)
(* them.  run reads its pipeline through an iterator and looks ahead only  *)
(* for is_last, so the model fixes the length n when run is entered and    *)
(* draws each descriptor when the iterator yields it.                      *)
(***************************************************************************)
Echo == <<"e", "c", "h", "o">>
Type == <<"t", "y", "p", "e">>
Exit == <<"e", "x", "i", "t">>
Cat == <<"c", "a", "t">>
True == <<"t", "r", "u", "e">>
Nope == <<"n", "o", "p", "e">>
NewLine == "\n"

Pwd == <<"p", "w", "d">>
Cd == <<"c", "d">>
History == <<"h", "i", "s", "t", "o", "r", "y">>

\* the builtins CommandRegistry::default registers
Builtins == {Type, Echo, Exit, Pwd, Cd, History}
\* the programs found on PATH: cat copies its stdin to its stdout until
\* end-of-input, true exits without reading or writing
Executables == {Cat, True}

get_builtin(name) == name \in Builtins

get_executable_path_any(name) == TRUE

\* registry.get_executable_path(name).is_some()
get_executable_path(name) == name \in Executables

\* the command names and argument lists of the stages the model draws
Invocations ==
    { [command |-> Echo, args |-> << <<"h">> >>],
      [command |-> Type, args |-> << Echo, Nope >>],
      [command |-> Exit, args |-> << >>],
      [command |-> Cat,  args |-> << >>],
      [command |-> True, args |-> << >>],
      [command |-> Nope, args |-> << >>] }

StdoutPath == <<"f">>
StderrPath == <<"g">>
HistPath == <<"H">>
\* the paths redirections name, and all paths
RedirectPaths == {StdoutPath, StderrPath}
Paths == RedirectPaths \cup {HistPath}

StageSet ==
    { [command |-> i.command, args |-> i.args,
       stdout_redirect |-> o.path, stdout_redirect_append |-> o.append,
       stderr_redirect |-> e.path, stderr_redirect_append |-> e.append] :
        i \in Invocations,
        o \in {[path |-> NoPath, append |-> FALSE], [path |-> StdoutPath, append |-> FALSE],
               [path |-> StdoutPath, append |-> TRUE]},
        e \in {[path |-> NoPath, append |-> FALSE], [path |-> StderrPath, append |-> FALSE],
               [path |-> StderrPath, append |-> TRUE]} }

\* the descriptors without redirections
PlainStages == {s \in StageSet : s.stdout_redirect = NoPath /\ s.stderr_redirect = NoPath}

\* the descriptors a pipeline of len stages is drawn from: the next element of
\* the slice handed to run when the slice is given, any descriptor otherwise
StagesOf(len) ==
    IF commands # << >> THEN {commands[Len(pipeline) + 1]}
    ELSE IF len <= MaxRedirStages THEN StageSet ELSE PlainStages

(***************************************************************************)
(* ShellResult<ShellStatus> and ShellError (error.rs).                     *)
(***************************************************************************)
NoResult == [status |-> "none", kind |-> "", arg |-> << >>]
Ok(status) == [status |-> status, kind |-> "", arg |-> << >>]
Err(kind, arg) == [status |-> "Err", kind |-> kind, arg |-> arg]

\* the #[error(...)] text of the errors a builtin of the model returns
Display(e) ==
    CASE e.kind = "TypeNotFound" ->
            e.arg \o <<":", " ", "n", "o", "t", " ", "f", "o", "u", "n", "d">>
      [] e.kind = "CommandNotFound" ->
            e.arg \o <<":", " ", "c", "o", "m", "m", "a", "n", "d", " ",
                       "n", "o", "t", " ", "f", "o", "u", "n", "d">>
      [] e.kind = "DirectoryNotFound" ->
            <<"c", "d", ":", " ">> \o e.arg
                \o <<":", " ", "N", "o", " ", "s", "u", "c", "h", " ", "f", "i", "l", "e">>
                \o <<" ", "o", "r", " ", "d", "i", "r", "e", "c", "t", "o", "r", "y">>
      [] e.kind = "HistoryArgRequired" ->
            <<"h", "i", "s", "t", "o", "r", "y", ":", " ">> \o e.arg
                \o <<":", " ", "a", "r", "g", "u", "m", "e", "n", "t", " ", "r", "e", "q", "u", "i", "r", "e", "d">>
      [] e.kind = "HistoryInvalidArg" ->
            <<"h", "i", "s", "t", "o", "r", "y", ":", " ">> \o e.arg
                \o <<":", " ", "n", "u", "m", "e", "r", "i", "c", " ">>
                \o <<"a", "r", "g", "u", "m", "e", "n", "t", " ", "r", "e", "q", "u", "i", "r", "e", "d">>
      [] OTHER -> <<"?">>

(***************************************************************************)
(* Files (files.rs).  A path that cannot be opened for writing is          *)
(* "denied"; the others are absent or hold text.                           *)
(***************************************************************************)
AbsentFile == [kind |-> "absent", data |-> << >>]
DeniedFile == [kind |-> "denied", data |-> << >>]
File(data) == [kind |-> "file", data |-> data]
InitialFiles == {AbsentFile, DeniedFile, File(<<"o">>)}

\* OpenOptions create(true).write(true).truncate(!append).append(append)
open_file_ok_always(files, path) == TRUE

open_file_ok(files, path) == files[path].kind # "denied"

open_file_truncate(files, path, append) == [files EXCEPT ![path] = File(<< >>)]

open_file_keep(files, path, append) ==
    IF files[path].kind = "file"
    THEN files
    ELSE [files EXCEPT ![path] = File(<< >>)]

open_file(files, path, append) ==
    IF files[path].kind = "file" /\ append
    THEN files
    ELSE [files EXCEPT ![path] = File(<< >>)]

write_file(files, path, text) == [files EXCEPT ![path] = File(files[path].data \o text)]

(***************************************************************************)
(* HistoryManager (commands/registry.rs 19-71).  A history file holds one  *)
(* entry per line.                                                         *)
(***************************************************************************)
RECURSIVE write_lines(_)
write_lines(entries) ==
    IF entries = << >> THEN << >>
    ELSE Append(Head(entries), NewLine) \o write_lines(Tail(entries))

\* str::lines: the text between line ends, no empty last line
RECURSIVE lines(_, _)
lines(text, cur) ==
    IF text = << >> THEN (IF cur = << >> THEN << >> ELSE <<cur>>)
    ELSE IF Head(text) = NewLine
         THEN <<cur>> \o lines(Tail(text), << >>)
         ELSE lines(Tail(text), Append(cur, Head(text)))

starts_with(text, prefix) ==
    Len(text) >= Len(prefix) /\ SubSeq(text, 1, Len(prefix)) = prefix

HistoryAppendFlag == <<"h", "i", "s", "t", "o", "r", "y", " ", "-", "a">>

calculate_start_index_zero(entries, append, is_exit) == 0

\* the number of entries write_to_file skips
calculate_start_index(entries, append, is_exit) ==
    IF append /\ ~is_exit
    THEN LET earlier == {i \in 1..(Len(entries) - 1) : starts_with(entries[i], HistoryAppendFlag)}
         IN  IF earlier = {} THEN 0
             ELSE CHOOSE i \in earlier : \A j \in earlier : j <= i
    ELSE 0

\* [ok, fs]
write_to_file(entries, files, path, append, is_exit) ==
    IF ~open_file_ok(files, path)
    THEN [ok |-> FALSE, fs |-> files]
    ELSE LET start_index == calculate_start_index(entries, append, is_exit)
         IN  [ok |-> TRUE,
              fs |-> write_file(open_file(files, path, append), path,
                                write_lines(SubSeq(entries, start_index + 1, Len(entries))))]

load_from_file_replace(entries, files, path) ==
    IF files[path].kind = "file"
    THEN [ok |-> TRUE, entries |-> lines(files[path].data, << >>)]
    ELSE [ok |-> FALSE, entries |-> << >>]

\* [ok, entries]: fs::read_to_string fails unless the file exists
load_from_file(entries, files, path) ==
    IF files[path].kind = "file"
    THEN [ok |-> TRUE, entries |-> entries \o lines(files[path].data, << >>)]
    ELSE [ok |-> FALSE, entries |-> entries]

(***************************************************************************)
(* Builtins (commands/echo.rs, type_cmd.rs, exit.rs): what execute writes  *)
(* to its output, what it returns and the files it leaves.                 *)
(***************************************************************************)
RECURSIVE join(_)
join(words) ==
    IF words = << >> THEN << >>
    ELSE IF Len(words) = 1 THEN words[1]
         ELSE words[1] \o <<" ">> \o join(Tail(words))

echo_execute(args, files) ==
    [out |-> Append(join(args), NewLine), res |-> Ok("Continue"), fs |-> files]

RECURSIVE type_loop(_, _, _)
type_loop(args, out, files) ==
    IF args = << >> THEN [out |-> out, res |-> Ok("Continue"), fs |-> files]
    ELSE IF get_builtin(Head(args))
         THEN type_loop(Tail(args),
                  out \o Head(args) \o <<" ", "i", "s", " ", "a", " ">>
                      \o <<"s", "h", "e", "l", "l", " ", "b", "u", "i", "l", "t", "i", "n">>
                      \o <<NewLine>>, files)
         ELSE IF get_executable_path(Head(args))
              THEN type_loop(Tail(args),
                       out \o Head(args) \o <<" ", "i", "s", " ", "/">> \o Head(args)
                           \o <<NewLine>>, files)
              ELSE [out |-> out, res |-> Err("TypeNotFound", Head(args)), fs |-> files]

type_execute(args, files) == type_loop(args, << >>, files)

\* the history file is written when HISTFILE is set; a failure to write is
\* ignored; entries is the history, which holds the line being run
exit_execute(args, files, entries) ==
    [out |-> << >>, res |-> Ok("Exit"),
     fs |-> IF histfile # NoPath
            THEN write_to_file(entries, files, histfile, FALSE, FALSE).fs
            ELSE files]

builtin_execute(command, args, files, entries) ==
    CASE command = Echo -> echo_execute(args, files)
      [] command = Type -> type_execute(args, files)
      [] command = Exit -> exit_execute(args, files, entries)

(***************************************************************************)
(* The history builtin (commands/history.rs) and cd (commands/cd.rs).      *)
(***************************************************************************)
FlagW == <<"-", "w">>
FlagA == <<"-", "a">>
FlagR == <<"-", "r">>

Digits == <<"0", "1", "2", "3", "4", "5", "6", "7", "8", "9">>

IsDigit(c) == \E d \in DOMAIN Digits : Digits[d] = c

DigitValue(c) == (CHOOSE d \in DOMAIN Digits : Digits[d] = c) - 1

RECURSIVE digits_value(_, _)
digits_value(text, acc) ==
    IF text = << >> THEN acc
    ELSE digits_value(Tail(text), acc * 10 + DigitValue(Head(text)))

\* str::parse::<usize>: an optional + and then one or more digits; -1 stands
\* for Err
parse_usize(text) ==
    LET body == IF text # << >> /\ Head(text) = "+" THEN Tail(text) ELSE text
    IN  IF body # << >> /\ \A i \in DOMAIN body : IsDigit(body[i])
        THEN digits_value(body, 0)
        ELSE -1

\* the decimal digits of a number
RECURSIVE to_digits(_)
to_digits(k) ==
    IF k < 10 THEN <<Digits[k + 1]>>
    ELSE Append(to_digits(k \div 10), Digits[(k % 10) + 1])

\* const HISTORY_LINE_NUMBER_WIDTH
HISTORY_LINE_NUMBER_WIDTH == 5

\* {:>width$}: spaces in front up to the width
RECURSIVE pad_left(_, _)
pad_left(text, width) ==
    IF Len(text) >= width THEN text ELSE pad_left(<<" ">> \o text, width)

\* the writeln! of list_history for entry i
history_line(i, entry) ==
    pad_left(to_digits(i), HISTORY_LINE_NUMBER_WIDTH) \o <<" ", " ">> \o entry \o <<NewLine>>

RECURSIVE history_lines(_, _)
history_lines(entries, i) ==
    IF i > Len(entries) THEN << >>
    ELSE history_line(i, entries[i]) \o history_lines(entries, i + 1)

list_history_all(args, entries) ==
    [out |-> history_lines(entries, 1), res |-> Ok("Continue")]

\* HistoryCommand::list_history: [out, res]
list_history(args, entries) ==
    LET limit == IF args = << >> THEN Len(entries) ELSE parse_usize(args[1])
    IN  IF limit < 0
        THEN [out |-> << >>, res |-> Err("HistoryInvalidArg", args[1])]
        ELSE LET start_index == IF limit >= Len(entries) THEN 0 ELSE Len(entries) - limit
             IN  [out |-> history_lines(entries, start_index + 1), res |-> Ok("Continue")]

\* HistoryCommand::execute: [out, res, fs, entries]
history_execute(args, entries, files) ==
    IF args # << >> /\ args[1] \in {FlagW, FlagA}
    THEN IF Len(args) < 2
         THEN [out |-> << >>, res |-> Err("HistoryArgRequired", args[1]),
               fs |-> files, entries |-> entries]
         ELSE LET w == write_to_file(entries, files, args[2], args[1] = FlagA, FALSE)
              IN  [out |-> << >>,
                   res |-> IF w.ok THEN Ok("Continue") ELSE Err("FileOpen", args[2]),
                   fs |-> w.fs, entries |-> entries]
    ELSE IF args # << >> /\ args[1] = FlagR
    THEN IF Len(args) < 2
         THEN [out |-> << >>, res |-> Err("HistoryArgRequired", args[1]),
               fs |-> files, entries |-> entries]
         ELSE LET l == load_from_file(entries, files, args[2])
              IN  [out |-> << >>,
                   res |-> IF l.ok THEN Ok("Continue") ELSE Err("Io", args[2]),
                   fs |-> files, entries |-> l.entries]
    ELSE LET l == list_history(args, entries)
         IN  [out |-> l.out, res |-> l.res, fs |-> files, entries |-> entries]

\* directories: the two that exist, one that does not
Root == <<"/">>
Dir == <<"/", "d">>
MissingDir == <<"/", "x">>
Tilde == <<"~">>
Directories == {Root, Dir}

\* env::set_current_dir succeeds for a directory that can be entered
set_current_dir_ok(path) == path \in Directories

cd_execute_home(args, dir, home) ==
    IF args = << >> \/ args[1] = Tilde
    THEN IF set_current_dir_ok(home)
         THEN [res |-> Ok("Continue"), cwd |-> home]
         ELSE [res |-> Err("DirectoryNotFound", home), cwd |-> dir]
    ELSE IF set_current_dir_ok(args[1])
         THEN [res |-> Ok("Continue"), cwd |-> args[1]]
         ELSE [res |-> Err("DirectoryNotFound", args[1]), cwd |-> dir]

\* CdCommand::execute: [res, cwd]; home is env::var("HOME").unwrap_or_default()
cd_execute(args, dir, home) ==
    IF args = << >> THEN [res |-> Ok("Continue"), cwd |-> dir]
    ELSE IF args[1] = Tilde
    THEN IF set_current_dir_ok(home)
         THEN [res |-> Ok("Continue"), cwd |-> home]
         ELSE [res |-> Err("DirectoryNotFound", home), cwd |-> dir]
    ELSE IF set_current_dir_ok(args[1])
         THEN [res |-> Ok("Continue"), cwd |-> args[1]]
         ELSE [res |-> Err("DirectoryNotFound", args[1]), cwd |-> dir]

(***************************************************************************)
(* PipeState and handle_builtin.                                           *)
(***************************************************************************)
PSNone == [tag |-> "None", child |-> 0, data |-> << >>]
PSProcess(k) == [tag |-> "Process", child |-> k, data |-> << >>]
PSBuffer(data) == [tag |-> "Buffer", child |-> 0, data |-> data]

\* the Ok arm of handle_builtin
builtin_new_state_empty(cmd, is_last, out) ==
    IF ~is_last /\ cmd.stdout_redirect = NoPath THEN PSBuffer(<< >>) ELSE PSNone

builtin_new_state_buffer(cmd, is_last, out) ==
    IF cmd.stdout_redirect = NoPath THEN PSBuffer(out) ELSE PSNone

builtin_new_state(cmd, is_last, out) ==
    IF ~is_last /\ cmd.stdout_redirect = NoPath THEN PSBuffer(out) ELSE PSNone

\* the Err arm of handle_builtin: files are the files after the builtin ran
builtin_failed_propagate(cmd, e, files) ==
    [res |-> e, new_state |-> PSNone, fs |-> files]

builtin_failed_swallow(cmd, e, files) ==
    [res |-> Ok("Continue"), new_state |-> PSNone, fs |-> files]

builtin_failed_buffer(cmd, e, files) ==
    IF cmd.stderr_redirect # NoPath
    THEN IF open_file_ok(files, cmd.stderr_redirect)
         THEN [res |-> Ok("Continue"), new_state |-> PSBuffer(<< >>),
               fs |-> write_file(open_file(files, cmd.stderr_redirect, TRUE),
                                 cmd.stderr_redirect, Append(Display(e), NewLine))]
         ELSE [res |-> Err("FileOpen", cmd.stderr_redirect), new_state |-> PSNone,
               fs |-> files]
    ELSE [res |-> e, new_state |-> PSNone, fs |-> files]

builtin_failed(cmd, e, files) ==
    IF cmd.stderr_redirect # NoPath
    THEN IF open_file_ok(files, cmd.stderr_redirect)
         THEN [res |-> Ok("Continue"), new_state |-> PSNone,
               fs |-> write_file(open_file(files, cmd.stderr_redirect, TRUE),
                                 cmd.stderr_redirect, Append(Display(e), NewLine))]
         ELSE [res |-> Err("FileOpen", cmd.stderr_redirect), new_state |-> PSNone,
               fs |-> files]
    ELSE [res |-> e, new_state |-> PSNone, fs |-> files]

\* where the builtin's output goes: the Box<dyn Write> of handle_builtin
writer_pipe_first(cmd, is_last) ==
    IF ~is_last THEN "buffer"
    ELSE IF cmd.stdout_redirect # NoPath THEN "file"
    ELSE "stdout"

writer(cmd, is_last) ==
    IF cmd.stdout_redirect # NoPath THEN "file"
    ELSE IF ~is_last THEN "buffer"
    ELSE "stdout"

execute_output_after_input(state, out) ==
    IF state.tag = "Buffer" THEN state.data \o out ELSE out

\* what builtin.execute writes to the writer: it is given the arguments, the
\* registry and the writer, and not the incoming state
execute_output(state, out) == out

\* handle_builtin: [res, new_state, fs, tty]; state is the _input parameter
handle_builtin(cmd, state, is_last, files, term, entries) ==
    IF cmd.stdout_redirect # NoPath /\ ~open_file_ok(files, cmd.stdout_redirect)
    THEN [res |-> Err("FileOpen", cmd.stdout_redirect), new_state |-> PSNone,
          fs |-> files, tty |-> term]
    ELSE
    LET f1 == IF cmd.stdout_redirect # NoPath
              THEN open_file(files, cmd.stdout_redirect, cmd.stdout_redirect_append)
              ELSE files
    IN
    IF cmd.stderr_redirect # NoPath /\ ~open_file_ok(f1, cmd.stderr_redirect)
    THEN [res |-> Err("FileOpen", cmd.stderr_redirect), new_state |-> PSNone,
          fs |-> f1, tty |-> term]
    ELSE
    LET f2 == IF cmd.stderr_redirect # NoPath
              THEN open_file(f1, cmd.stderr_redirect, cmd.stderr_redirect_append)
              ELSE f1
        e  == builtin_execute(cmd.command, cmd.args, f2, entries)
        x  == [e EXCEPT !.out = execute_output(state, e.out)]
        w  == writer(cmd, is_last)
        f3 == IF w = "file"
              THEN write_file(x.fs, cmd.stdout_redirect, x.out)
              ELSE x.fs
        t3 == IF w = "stdout" THEN term \o x.out ELSE term
    IN
    IF x.res.status = "Err"
    THEN LET b == builtin_failed(cmd, x.res, f3)
         IN  [res |-> b.res, new_state |-> b.new_state, fs |-> b.fs, tty |-> t3]
    ELSE [res |-> x.res, new_state |-> builtin_new_state(cmd, is_last, x.out),
          fs |-> f3, tty |-> t3]

(***************************************************************************)
(* Processes and pipes.  A child is the process of an external stage; the  *)
(* read end of a pipe is held by the executor (in Child.stdout), by the    *)
(* child it was handed to, or closed, and so is the write end.             *)
(* got is a history field: every character the child has read.             *)
(***************************************************************************)
Stages == 1..MaxStages

NoChild == [st |-> "none", waited |-> FALSE, prog |-> << >>, stdin |-> "none",
            stdout |-> "none", held |-> << >>, got |-> << >>, eof |-> FALSE]
NoPipe == [data |-> << >>, writer |-> "none", reader |-> "none"]

\* dropping a PipeState: a Child is neither killed nor waited for when it is
\* dropped; the stdout handle it still holds is closed
drop_state(state, ps) ==
    IF state.tag = "Process" /\ ps[state.child].reader = "exec"
    THEN [ps EXCEPT ![state.child].reader = "closed"]
    ELSE ps

\* run, after a stage returned status
loop_control_ignore_exit(status) == "next"

loop_control(status) == IF status = "Exit" THEN "return" ELSE "next"


ExInit ==
    /\ n \in 0..MaxStages
    /\ pipeline = << >>
    /\ log = << >>
    /\ ex_pc = "start"
    /\ previous_output = PSNone
    /\ result = NoResult
    /\ children = [k \in Stages |-> NoChild]
    /\ pipes = [k \in Stages |-> NoPipe]
    /\ \E files \in [RedirectPaths -> InitialFiles] :
          fs = [p \in Paths |-> IF p \in RedirectPaths /\ n <= MaxRedirStages
                                THEN files[p] ELSE AbsentFile]
    /\ tty = << >>
    /\ wbuf = << >>

\* run is returning: its locals are dropped
Return(res, ps) ==
    /\ result' = res
    /\ ex_pc' = "returned"
    /\ previous_output' = PSNone
    /\ pipes' = drop_state(previous_output, ps)

\* previous_output = new_state, and the next turn of the while loop
Carry(new_state, ps) ==
    /\ previous_output' = new_state
    /\ pipes' = drop_state(previous_output, ps)
    /\ ex_pc' = "loop"
    /\ UNCHANGED result

\* if pipeline.is_empty() { return Ok(ShellStatus::Continue) }
RunStart ==
    /\ ex_pc = "start"
    /\ IF n = 0
       THEN /\ result' = Ok("Continue")
            /\ ex_pc' = "returned"
       ELSE /\ ex_pc' = "loop"
            /\ UNCHANGED result
    /\ UNCHANGED <<tkVars, mainVars, n, pipeline, log, previous_output, children, pipes, fs, tty, wbuf>>

\* one turn of the while loop for a builtin stage: handle_builtin and what run
\* does with what it returns
StageBuiltin ==
    /\ ex_pc = "loop"
    /\ Len(pipeline) < n
    /\ \E cmd \in StagesOf(n) :
        /\ get_builtin(cmd.command)
        /\ LET is_last == Len(pipeline) + 1 = n
               h == handle_builtin(cmd, previous_output, is_last, fs, tty, history)
           IN  /\ pipeline' = Append(pipeline, cmd)
               /\ log' = Append(log, h.res.status)
               /\ fs' = h.fs
               /\ tty' = h.tty
               /\ IF h.res.status = "Err"
                  THEN Return(h.res, pipes)
                  ELSE IF loop_control(h.res.status) = "return"
                       THEN Return(Ok("Exit"), pipes)
                       ELSE Carry(h.new_state, pipes)
    /\ UNCHANGED <<tkVars, mainVars, n, children, wbuf>>

\* whether the stage's stdout is a new pipe to the next stage
creates_pipe(cmd, is_last) == cmd.stdout_redirect = NoPath /\ ~is_last

\* the child's stdin, from the state the previous stage left; taken is whether
\* child.stdout.take() returned the read end
child_stdin_inherit(state, taken) ==
    CASE state.tag = "Process" -> IF taken THEN "pipe" ELSE "null"
      [] OTHER                 -> "inherit"

child_stdin(state, taken) ==
    CASE state.tag = "Process" -> IF taken THEN "pipe" ELSE "null"
      [] state.tag = "Buffer"  -> "pipe"
      [] OTHER                 -> "inherit"

unresolved_files_opened(cmd, files) ==
    IF cmd.stdout_redirect # NoPath /\ open_file_ok(files, cmd.stdout_redirect)
    THEN open_file(files, cmd.stdout_redirect, cmd.stdout_redirect_append)
    ELSE files

\* the files when the let-else returns CommandNotFound: no redirect target
\* has been opened yet
unresolved_files(cmd, files) == files

\* handle_external up to the spawn, for stage k; spawn_ok is whether the OS
\* starts the program: [res, children, pipes, fs]
handle_external(cmd, k, is_last, spawn_ok, files) ==
    IF ~get_executable_path(cmd.command)
    THEN [res |-> Err("CommandNotFound", cmd.command), children |-> children,
          pipes |-> pipes, fs |-> unresolved_files(cmd, files)]
    ELSE
    LET \* child.stdout.take(): the read end leaves the previous Child
        taken == previous_output.tag = "Process"
                     /\ pipes[previous_output.child].reader = "exec"
        stdin == child_stdin(previous_output, taken)
        \* an early return drops the Stdio built from the taken read end
        p_fail == IF taken THEN [pipes EXCEPT ![k - 1].reader = "closed"] ELSE pipes
    IN
    IF cmd.stdout_redirect # NoPath /\ ~open_file_ok(files, cmd.stdout_redirect)
    THEN [res |-> Err("FileOpen", cmd.stdout_redirect), children |-> children,
          pipes |-> p_fail, fs |-> files]
    ELSE
    LET f1 == IF cmd.stdout_redirect # NoPath
              THEN open_file(files, cmd.stdout_redirect, cmd.stdout_redirect_append)
              ELSE files
    IN
    IF cmd.stderr_redirect # NoPath /\ ~open_file_ok(f1, cmd.stderr_redirect)
    THEN [res |-> Err("FileOpen", cmd.stderr_redirect), children |-> children,
          pipes |-> p_fail, fs |-> f1]
    ELSE
    LET f2 == IF cmd.stderr_redirect # NoPath
              THEN open_file(f1, cmd.stderr_redirect, cmd.stderr_redirect_append)
              ELSE f1
    IN
    IF ~spawn_ok
    THEN [res |-> Err("ProcessStart", cmd.command), children |-> children,
          pipes |-> p_fail, fs |-> f2]
    ELSE
    LET stdout == IF cmd.stdout_redirect # NoPath THEN "file"
                  ELSE IF creates_pipe(cmd, is_last) THEN "pipe" ELSE "inherit"
        child == [st |-> "running", waited |-> FALSE, prog |-> cmd.command,
                  stdin |-> stdin, stdout |-> stdout,
                  held |-> << >>, got |-> << >>, eof |-> FALSE]
        p1 == IF taken THEN [pipes EXCEPT ![k - 1].reader = "child"] ELSE pipes
        p2 == IF previous_output.tag = "Buffer"
              THEN [p1 EXCEPT ![k - 1] = [data |-> << >>, writer |-> "exec", reader |-> "child"]]
              ELSE p1
        p3 == IF stdout = "pipe"
              THEN [p2 EXCEPT ![k] = [data |-> << >>, writer |-> "child", reader |-> "exec"]]
              ELSE p2
    IN  [res |-> Ok("Continue"), children |-> [children EXCEPT ![k] = child],
         pipes |-> p3, fs |-> f2]

AfterSpawn_forward(k, ps) ==
    /\ log' = Append(log, "Continue")
    /\ Carry(IF children'[k].stdout = "pipe" THEN PSProcess(k) ELSE PSNone, ps)

\* after the spawn and the write of a buffer: pipe forward, or wait
AfterSpawn(k, ps) ==
    IF children'[k].stdout = "pipe"
    THEN /\ log' = Append(log, "Continue")
         /\ Carry(PSProcess(k), ps)
    ELSE /\ ex_pc' = "wait"
         /\ pipes' = ps
         /\ UNCHANGED <<log, previous_output, result>>

\* one turn of the while loop for an external stage, up to the spawn
StageExternal ==
    /\ ex_pc = "loop"
    /\ Len(pipeline) < n
    /\ \E cmd \in StagesOf(n), spawn_ok \in BOOLEAN :
        /\ ~get_builtin(cmd.command)
        /\ LET k == Len(pipeline) + 1
               h == handle_external(cmd, k, k = n, spawn_ok, fs)
           IN  /\ pipeline' = Append(pipeline, cmd)
               /\ fs' = h.fs
               /\ children' = h.children
               /\ IF h.res.status = "Err"
                  THEN /\ log' = Append(log, "Err")
                       /\ Return(h.res, h.pipes)
                       /\ UNCHANGED wbuf
                  ELSE IF previous_output.tag = "Buffer"
                       THEN /\ ex_pc' = "write"
                            /\ wbuf' = previous_output.data
                            /\ pipes' = h.pipes
                            /\ UNCHANGED <<log, previous_output, result>>
                       ELSE /\ AfterSpawn(k, h.pipes)
                            /\ UNCHANGED wbuf
    /\ UNCHANGED <<tkVars, mainVars, n, tty>>

pipe_has_room_never(p) == FALSE

\* a write to a pipe goes through when the pipe is not full, and blocks
\* otherwise
pipe_has_room(p) == Len(p.data) < PipeCap

\* stdin.write_all(data): one character goes into the pipe when it has room
WriteByte ==
    /\ ex_pc = "write"
    /\ wbuf # << >>
    /\ LET k == Len(pipeline) IN
        /\ pipes[k - 1].reader # "closed"
        /\ pipe_has_room(pipes[k - 1])
        /\ pipes' = [pipes EXCEPT ![k - 1].data = Append(@, Head(wbuf))]
    /\ wbuf' = Tail(wbuf)
    /\ UNCHANGED <<tkVars, mainVars, n, pipeline, log, ex_pc, previous_output, result, children, fs, tty>>

\* write_all fails once the child has closed its stdin (EPIPE); the ? returns
\* from run, dropping the new Child and the stdin handle
WriteBroken ==
    /\ ex_pc = "write"
    /\ wbuf # << >>
    /\ LET k == Len(pipeline) IN
        /\ pipes[k - 1].reader = "closed"
        /\ Return(Err("Io", << >>),
                  [pipes EXCEPT ![k - 1].writer = "closed",
                                ![k].reader = IF @ = "exec" THEN "closed" ELSE @])
    /\ log' = Append(log, "Err")
    /\ wbuf' = << >>
    /\ UNCHANGED <<tkVars, mainVars, n, pipeline, children, fs, tty>>

\* all of data is written; the stdin handle is dropped at the end of the if
WriteDone ==
    /\ ex_pc = "write"
    /\ wbuf = << >>
    /\ LET k == Len(pipeline) IN
        /\ children' = children
        /\ AfterSpawn(k, [pipes EXCEPT ![k - 1].writer = "closed"])
    /\ UNCHANGED <<tkVars, mainVars, n, pipeline, fs, tty, wbuf>>

\* child.wait()? in handle_external returns once the child has exited
WaitChild ==
    /\ ex_pc = "wait"
    /\ LET k == Len(pipeline) IN
        /\ children[k].st = "exited"
        /\ children' = [children EXCEPT ![k].waited = TRUE]
    /\ log' = Append(log, "Continue")
    /\ Carry(PSNone, pipes)
    /\ UNCHANGED <<tkVars, mainVars, n, pipeline, fs, tty, wbuf>>

\* the iterator is exhausted: wait for a carried process, then Ok(Continue)
AfterLoop ==
    /\ ex_pc = "loop"
    /\ Len(pipeline) = n
    /\ IF previous_output.tag = "Process"
       THEN /\ children[previous_output.child].st = "exited"
            /\ children' = [children EXCEPT ![previous_output.child].waited = TRUE]
       ELSE UNCHANGED children
    /\ Return(Ok("Continue"), pipes)
    /\ UNCHANGED <<tkVars, mainVars, n, pipeline, log, fs, tty, wbuf>>

(***************************************************************************)
(* The external programs.  Each runs concurrently with the executor from   *)
(* its spawn on, also after run has returned.                              *)
(***************************************************************************)
\* the pipe a child's stdin or stdout is, by the child's stage
Running(k) == children[k].st = "running"

\* the process ends: its ends of its pipes are closed
Exited(k, cs, ps) ==
    /\ children' = [cs EXCEPT ![k].st = "exited"]
    /\ pipes' = [j \in Stages |->
                    IF j = k /\ cs[k].stdout = "pipe" THEN [ps[j] EXCEPT !.writer = "closed"]
                    ELSE IF j = k - 1 /\ cs[k].stdin = "pipe" THEN [ps[j] EXCEPT !.reader = "closed"]
                    ELSE ps[j]]

\* cat reads one character of its stdin
ChildRead(k) ==
    /\ Running(k)
    /\ children[k].prog = Cat
    /\ children[k].held = << >>
    /\ children[k].stdin = "pipe"
    /\ pipes[k - 1].data # << >>
    /\ children' = [children EXCEPT ![k].held = <<Head(pipes[k - 1].data)>>,
                                    ![k].got = Append(@, Head(pipes[k - 1].data))]
    /\ pipes' = [pipes EXCEPT ![k - 1].data = Tail(@)]
    /\ UNCHANGED <<tkVars, mainVars, n, pipeline, log, ex_pc, previous_output, result, fs, tty, wbuf>>

\* cat reads end-of-input: an empty pipe whose write end is closed, /dev/null,
\* or the end of the terminal's input
ChildEof(k) ==
    /\ Running(k)
    /\ children[k].prog = Cat
    /\ ~children[k].eof
    /\ children[k].held = << >>
    /\ children[k].stdin = "pipe" =>
            pipes[k - 1].data = << >> /\ pipes[k - 1].writer = "closed"
    /\ children' = [children EXCEPT ![k].eof = TRUE]
    /\ UNCHANGED <<tkVars, mainVars, n, pipeline, log, ex_pc, previous_output, result, pipes, fs, tty, wbuf>>

\* cat writes the character it holds to its stdout
ChildWrite(k) ==
    /\ Running(k)
    /\ children[k].held # << >>
    /\ children' = [children EXCEPT ![k].held = << >>]
    /\ CASE children[k].stdout = "pipe" ->
              /\ pipes[k].reader # "closed"
              /\ pipe_has_room(pipes[k])
              /\ pipes' = [pipes EXCEPT ![k].data = @ \o children[k].held]
              /\ UNCHANGED <<fs, tty>>
         [] children[k].stdout = "file" ->
              /\ fs' = write_file(fs, pipeline[k].stdout_redirect, children[k].held)
              /\ UNCHANGED <<pipes, tty>>
         [] OTHER ->
              /\ tty' = tty \o children[k].held
              /\ UNCHANGED <<pipes, fs>>
    /\ UNCHANGED <<tkVars, mainVars, n, pipeline, log, ex_pc, previous_output, result, wbuf>>

\* cat writes to a pipe nobody reads any more and is killed by SIGPIPE
ChildSigpipe(k) ==
    /\ Running(k)
    /\ children[k].held # << >>
    /\ children[k].stdout = "pipe"
    /\ pipes[k].reader = "closed"
    /\ Exited(k, children, pipes)
    /\ UNCHANGED <<tkVars, mainVars, n, pipeline, log, ex_pc, previous_output, result, fs, tty, wbuf>>

\* the program ends: true at once, cat after end-of-input
ChildExit(k) ==
    /\ Running(k)
    /\ children[k].prog = Cat => children[k].eof /\ children[k].held = << >>
    /\ Exited(k, children, pipes)
    /\ UNCHANGED <<tkVars, mainVars, n, pipeline, log, ex_pc, previous_output, result, fs, tty, wbuf>>

\* the steps of the thread that called run
ExecutorStep ==
    \/ RunStart
    \/ StageBuiltin
    \/ StageExternal
    \/ WriteByte
    \/ WriteBroken
    \/ WriteDone
    \/ WaitChild
    \/ AfterLoop

ExNext ==
    \/ RunStart
    \/ StageBuiltin
    \/ StageExternal
    \/ WriteByte
    \/ WriteBroken
    \/ WriteDone
    \/ WaitChild
    \/ AfterLoop
    \/ \E k \in Stages : ChildRead(k)
    \/ \E k \in Stages : ChildEof(k)
    \/ \E k \in Stages : ChildWrite(k)
    \/ \E k \in Stages : ChildSigpipe(k)
    \/ \E k \in Stages : ChildExit(k)


(***************************************************************************)
(* main (main.rs 16-70).  The lines of this part parse to one stage that   *)
(* run handles without starting a process: a builtin, or a command that is *)
(* not found.                                                              *)
(***************************************************************************)
\* how many times main calls editor.readline
MaxReads == 3

MainLines ==
    { <<" ">>,
      Echo \o <<" ", "h">>,
      Exit,
      Type \o <<" ">> \o Nope,
      Nope,
      Echo \o <<" ", "h", " ", ">", " ">> \o StdoutPath,
      Echo \o <<" ", "j", " ", ">", ">", " ">> \o StdoutPath,
      Type \o <<" ">> \o Nope \o <<" ", ">", " ">> \o StdoutPath }

\* ShellExecutor::run for a pipeline of one stage that starts no process:
\* [res, fs, tty]
run_one(cmd, files, term, entries) ==
    IF get_builtin(cmd.command)
    THEN LET h == handle_builtin(cmd, PSNone, TRUE, files, term, entries)
         IN  [res |-> IF h.res.status = "Err" THEN h.res
                      ELSE IF loop_control(h.res.status) = "return" THEN Ok("Exit")
                      ELSE Ok("Continue"),
              fs |-> h.fs, tty |-> h.tty]
    ELSE [res |-> Err("CommandNotFound", cmd.command), fs |-> files, tty |-> term]

\* the match on executor.run(&commands)
on_run_result_strict(res) == IF res.status = "Continue" THEN "continue" ELSE "break"

on_run_result(res) == IF res.status = "Exit" THEN "break" ELSE "continue"

MainInit ==
    /\ main_pc = "startup"
    /\ rl = "none"
    /\ reads = 0
    /\ history = << >>
    /\ histfile \in {NoPath, HistPath}
    /\ err_out = << >>
    /\ cwd = Root
    /\ n = 0
    /\ pipeline = << >>
    /\ log = << >>
    /\ ex_pc = "off"
    /\ previous_output = PSNone
    /\ result = NoResult
    /\ children = [k \in Stages |-> NoChild]
    /\ pipes = [k \in Stages |-> NoPipe]
    /\ \E h \in {AbsentFile, File(<<"o", NewLine>>)}, f \in {AbsentFile, File(<<"o", NewLine>>)} :
          fs = [p \in Paths |-> IF p = HistPath THEN h
                                ELSE IF p = StdoutPath THEN f ELSE AbsentFile]
    /\ tty = << >>
    /\ wbuf = << >>

\* before the loop: the history file is loaded when HISTFILE is set
Startup ==
    /\ main_pc = "startup"
    /\ history' = IF histfile # NoPath
                  THEN load_from_file(history, fs, histfile).entries
                  ELSE history
    /\ main_pc' = "readline"
    /\ UNCHANGED <<tkVars, exVars, rl, reads, histfile, err_out, cwd>>

\* readline returned Ok(line)
ReadLine ==
    /\ main_pc = "readline"
    /\ reads < MaxReads
    /\ \E line \in MainLines :
        LET cmds == parse_input(tokenize_input(line)) IN
        /\ rl' = "Line"
        /\ reads' = reads + 1
        /\ history' = Append(history, line)
        /\ input' = line
        /\ commands' = cmds
        /\ IF cmds = << >>
           THEN /\ result' = NoResult
                /\ UNCHANGED <<main_pc, fs, tty, err_out>>
           ELSE LET r == run_one(cmds[1], fs, tty, Append(history, line)) IN
                /\ result' = r.res
                /\ fs' = r.fs
                /\ tty' = r.tty
                /\ main_pc' = IF on_run_result(r.res) = "break" THEN "ended" ELSE "readline"
                /\ err_out' = IF r.res.status = "Err"
                              THEN Append(err_out, Display(r.res))
                              ELSE err_out
    /\ UNCHANGED <<tz, tk_pc, histfile, cwd>>
    /\ UNCHANGED <<n, pipeline, log, ex_pc, previous_output, children, pipes, wbuf>>

\* readline returned Err(ReadlineError::Interrupted)
ReadInterrupted ==
    /\ main_pc = "readline"
    /\ reads < MaxReads
    /\ rl' = "Interrupted"
    /\ reads' = reads + 1
    /\ tty' = tty \o <<"^", "C", NewLine>>
    /\ result' = NoResult
    /\ UNCHANGED <<tkVars, main_pc, history, histfile, err_out, cwd>>
    /\ UNCHANGED <<n, pipeline, log, ex_pc, previous_output, children, pipes, fs, wbuf>>

\* readline returned Err(ReadlineError::Eof)
ReadEof ==
    /\ main_pc = "readline"
    /\ reads < MaxReads
    /\ rl' = "Eof"
    /\ reads' = reads + 1
    /\ tty' = tty \o Exit \o <<NewLine>>
    /\ result' = NoResult
    /\ main_pc' = "ended"
    /\ UNCHANGED <<tkVars, history, histfile, err_out, cwd>>
    /\ UNCHANGED <<n, pipeline, log, ex_pc, previous_output, children, pipes, fs, wbuf>>

\* readline returned any other Err(err)
ReadError ==
    /\ main_pc = "readline"
    /\ reads < MaxReads
    /\ rl' = "Error"
    /\ reads' = reads + 1
    /\ err_out' = Append(err_out, <<"E", "r", "r", "o", "r", ":">>)
    /\ result' = NoResult
    /\ main_pc' = "ended"
    /\ UNCHANGED <<tkVars, history, histfile, cwd>>
    /\ UNCHANGED <<n, pipeline, log, ex_pc, previous_output, children, pipes, fs, tty, wbuf>>

MainNext == Startup \/ ReadLine \/ ReadInterrupted \/ ReadEof \/ ReadError

(***************************************************************************)
(* The registry's history and the builtins history and cd, called one      *)
(* after the other as the command tests call them.  pipeline holds the     *)
(* stage descriptor of the builtin called last, tty what it wrote to the   *)
(* writer it was handed, input the line added last.                        *)
(***************************************************************************)
\* how many calls are made
MaxOps == 3

CmdLines == { <<"x">>, <<"y">>, HistoryAppendFlag \o <<" ">> \o HistPath }

HistoryArgs ==
    { << >>, << <<"1">> >>, << <<"9">> >>, << <<"+", "2">> >>, << <<"x">> >>, << <<"-", "1">> >>,
      << FlagW >>, << FlagW, HistPath >>, << FlagA, HistPath >>, << FlagA, StdoutPath >>,
      << FlagR, HistPath >>, << FlagR, StdoutPath >> }

CdArgs == { << >>, << Root >>, << Dir >>, << MissingDir >>, << Tilde >>, << Dir, MissingDir >> }

\* the values of HOME: a directory, one that does not exist, unset
Homes == { Dir, MissingDir, << >> }

Invoke(command, args) ==
    [command |-> command, args |-> args,
     stdout_redirect |-> NoPath, stdout_redirect_append |-> FALSE,
     stderr_redirect |-> NoPath, stderr_redirect_append |-> FALSE]

CmdInit ==
    /\ n = 0
    /\ pipeline = << >>
    /\ log = << >>
    /\ ex_pc = "off"
    /\ previous_output = PSNone
    /\ result = NoResult
    /\ children = [k \in Stages |-> NoChild]
    /\ pipes = [k \in Stages |-> NoPipe]
    /\ \E h \in {AbsentFile, DeniedFile, File(<<"o", NewLine>>), File(<<"o">>)} :
          fs = [p \in Paths |-> IF p = HistPath THEN h ELSE AbsentFile]
    /\ tty = << >>
    /\ wbuf = << >>
    /\ main_pc = "off"
    /\ rl = "none"
    /\ reads = 0
    /\ history = << >>
    /\ histfile = NoPath
    /\ err_out = << >>
    /\ cwd \in Directories

\* registry.add_history_entry(line)
AddHistoryEntry ==
    /\ reads < MaxOps
    /\ \E line \in CmdLines :
        /\ history' = Append(history, line)
        /\ input' = line
    /\ reads' = reads + 1
    /\ rl' = "add"
    /\ UNCHANGED <<tz, commands, tk_pc, exVars, main_pc, histfile, err_out, cwd>>

\* HistoryCommand.execute(args, registry, output)
HistoryExecute ==
    /\ reads < MaxOps
    /\ \E args \in HistoryArgs :
        LET h == history_execute(args, history, fs) IN
        /\ pipeline' = <<Invoke(History, args)>>
        /\ history' = h.entries
        /\ fs' = h.fs
        /\ tty' = h.out
        /\ result' = h.res
    /\ reads' = reads + 1
    /\ rl' = "history"
    /\ UNCHANGED <<tkVars, n, log, ex_pc, previous_output, children, pipes, wbuf>>
    /\ UNCHANGED <<main_pc, histfile, err_out, cwd>>

\* CdCommand.execute(args, registry, output)
CdExecute ==
    /\ reads < MaxOps
    /\ \E args \in CdArgs, home \in Homes :
        LET c == cd_execute(args, cwd, home) IN
        /\ pipeline' = <<Invoke(Cd, args)>>
        /\ cwd' = c.cwd
        /\ result' = c.res
    /\ tty' = << >>
    /\ reads' = reads + 1
    /\ rl' = "cd"
    /\ UNCHANGED <<tkVars, n, log, ex_pc, previous_output, children, pipes, fs, wbuf>>
    /\ UNCHANGED <<main_pc, history, histfile, err_out>>

CmdNext == AddHistoryEntry \/ HistoryExecute \/ CdExecute

(***************************************************************************)
(* Specifications.  Each part runs with the other parts switched off.      *)
(***************************************************************************)
TkOff ==
    /\ input = << >>
    /\ tz = TokenizerNew(<< >>)
    /\ commands = << >>
    /\ tk_pc = "off"

ExOff ==
    /\ n = 0
    /\ pipeline = << >>
    /\ log = << >>
    /\ ex_pc = "off"
    /\ previous_output = PSNone
    /\ result = NoResult
    /\ children = [k \in Stages |-> NoChild]
    /\ pipes = [k \in Stages |-> NoPipe]
    /\ fs = [p \in Paths |-> AbsentFile]
    /\ tty = << >>
    /\ wbuf = << >>

(***************************************************************************)
(* A session of the read-eval loop whose lines are history -a commands and *)
(* other text (main.rs 40-55, commands/history.rs 27-33).                  *)
(***************************************************************************)
\* history -a with the file of the session, with no path, with another file
SessionLines ==
    { <<"x">>, <<"y">>,
      HistoryAppendFlag \o <<" ">> \o HistPath,
      HistoryAppendFlag,
      HistoryAppendFlag \o <<" ">> \o StdoutPath }

SessionInit ==
    /\ n = 0
    /\ pipeline = << >>
    /\ log = << >>
    /\ ex_pc = "off"
    /\ previous_output = PSNone
    /\ result = NoResult
    /\ children = [k \in Stages |-> NoChild]
    /\ pipes = [k \in Stages |-> NoPipe]
    /\ \E h \in {AbsentFile, File(<< >>)} :
          fs = [p \in Paths |-> IF p = HistPath THEN h ELSE AbsentFile]
    /\ tty = << >>
    /\ wbuf = << >>
    /\ main_pc = "readline"
    /\ rl = "none"
    /\ reads = 0
    /\ history = << >>
    /\ histfile = NoPath
    /\ err_out = << >>
    /\ cwd = Root

\* readline returned Ok(line): the line is added to the history, parsed and
\* run; the history builtin runs as the only stage, any other word is a
\* command that is not found
EnterLine ==
    /\ main_pc = "readline"
    /\ reads < MaxOps
    /\ \E line \in SessionLines :
        LET entries == Append(history, line)
            cmds == parse_input(tokenize_input(line))
            h == history_execute(cmds[1].args, entries, fs)
            res == IF cmds[1].command = History THEN h.res
                   ELSE Err("CommandNotFound", cmds[1].command)
        IN  /\ input' = line
            /\ commands' = cmds
            /\ pipeline' = cmds
            /\ history' = IF cmds[1].command = History THEN h.entries ELSE entries
            /\ fs' = IF cmds[1].command = History THEN h.fs ELSE fs
            /\ tty' = IF cmds[1].command = History THEN tty \o h.out ELSE tty
            /\ result' = res
            /\ err_out' = IF res.status = "Err" THEN Append(err_out, Display(res))
                          ELSE err_out
    /\ rl' = "Line"
    /\ reads' = reads + 1
    /\ UNCHANGED <<tz, tk_pc, main_pc, histfile, cwd>>
    /\ UNCHANGED <<n, log, ex_pc, previous_output, children, pipes, wbuf>>

SessionNext == EnterLine

(***************************************************************************)
(* run on given pipelines, with every process and the executor scheduled.  *)
(***************************************************************************)
LongEcho == Invoke(Echo, << <<"h">>, <<"h">>, <<"h">> >>)
ShortEcho == Invoke(Echo, << <<"h">> >>)

\* the slices handed to run
GivenPipelines ==
    { << LongEcho, Invoke(Cat, << >>), Invoke(Cat, << >>) >>,
      << LongEcho, Invoke(Cat, << >>) >>,
      << ShortEcho, Invoke(Cat, << >>), Invoke(Cat, << >>) >>,
      << ShortEcho, Invoke(Cat, << >>), Invoke(True, << >>) >>,
      << ShortEcho, Invoke(True, << >>) >>,
      << Invoke(Cat, << >>), Invoke(Cat, << >>), Invoke(Cat, << >>) >>,
      << Invoke(Cat, << >>), ShortEcho >> }

GivenInit ==
    /\ input = << >>
    /\ tz = TokenizerNew(<< >>)
    /\ commands \in GivenPipelines
    /\ tk_pc = "off"
    /\ n = Len(commands)
    /\ pipeline = << >>
    /\ log = << >>
    /\ ex_pc = "start"
    /\ previous_output = PSNone
    /\ result = NoResult
    /\ children = [k \in Stages |-> NoChild]
    /\ pipes = [k \in Stages |-> NoPipe]
    /\ fs = [p \in Paths |-> AbsentFile]
    /\ tty = << >>
    /\ wbuf = << >>

\* the thread of run and every spawned process keep running
Scheduling ==
    /\ WF_vars(ExecutorStep)
    /\ \A k \in Stages :
          /\ WF_vars(ChildRead(k))
          /\ WF_vars(ChildEof(k))
          /\ WF_vars(ChildWrite(k))
          /\ WF_vars(ChildSigpipe(k))
          /\ WF_vars(ChildExit(k))

MainOff ==
    /\ main_pc = "off"
    /\ rl = "none"
    /\ reads = 0
    /\ history = << >>
    /\ histfile = NoPath
    /\ err_out = << >>
    /\ cwd = Root

Init == TkOff /\ ExInit /\ MainOff

InitTok == TkInit /\ ExOff /\ MainOff

InitMain == TkOff /\ MainInit

InitParse == TkParseInit /\ ExOff /\ MainOff

InitCmd == TkOff /\ CmdInit

InitSession == TkOff /\ SessionInit

InitGiven == GivenInit /\ MainOff

Next == ExNext

\* one call of ShellExecutor::run
Spec == Init /\ [][Next]_vars

\* one call of parse_input
SpecTok == InitTok /\ [][TkNext]_vars

\* the read-eval loop of main
SpecMain == InitMain /\ [][MainNext]_vars

\* parse_input from the tokens on
SpecParse == InitParse /\ [][ParseNext]_vars

\* calls of the registry's history and of the history and cd builtins
SpecCmd == InitCmd /\ [][CmdNext]_vars

\* a session of history -a commands
SpecSession == InitSession /\ [][SessionNext]_vars

\* one call of run on a given pipeline, under fair scheduling
SpecFair == InitGiven /\ [][Next]_vars /\ Scheduling

(***************************************************************************)
(* Properties.                                                             *)
(***************************************************************************)
IsPrefix(a, b) == Len(a) <= Len(b) /\ SubSeq(b, 1, Len(a)) = a

Spawned(k) == children[k].st # "none"

NoRedirect(cmd) == cmd.stdout_redirect = NoPath /\ cmd.stderr_redirect = NoPath

\* the redirect targets of cmd can be opened
Openable(cmd) ==
    /\ cmd.stdout_redirect # NoPath => fs[cmd.stdout_redirect].kind # "denied"
    /\ cmd.stderr_redirect # NoPath => fs[cmd.stderr_redirect].kind # "denied"

\* what the builtin of stage cmd writes and returns
Executed(cmd) == builtin_execute(cmd.command, cmd.args, fs, history)

\* C1: for every pipeline made only of external stages with no redirections,
\* all of which were started, run returns Continue and every child it spawned
\* has been waited for when run returns.
C1_ExternalPipelineReapsAll ==
    ( /\ ex_pc = "returned"
      /\ Len(pipeline) = n
      /\ \A k \in 1..n : /\ pipeline[k].command \in Executables
                         /\ NoRedirect(pipeline[k])
                         /\ Spawned(k) )
    => /\ result = Ok("Continue")
       /\ \A k \in 1..n : children[k].waited

\* stage k is an external stage that was started right after a builtin stage
\* with no stdout redirect
FedByBuiltin(k) ==
    /\ k \in 2..Len(pipeline)
    /\ Spawned(k)
    /\ get_builtin(pipeline[k - 1].command)
    /\ pipeline[k - 1].stdout_redirect = NoPath

\* the stdin of the child of stage k carries the characters the builtin before
\* it wrote, in order, and then end-of-input
ReadsWhatBuiltinWrote(k) ==
    LET written == Executed(pipeline[k - 1]).out IN
    /\ children[k].stdin = "pipe"
    /\ IsPrefix(children[k].got \o pipes[k - 1].data, written)
    /\ children[k].eof => children[k].got = written

C3_UnresolvedCommandFails ==
    \A k \in DOMAIN pipeline :
        (pipeline[k].command \notin (Builtins \cup Executables))
            => /\ ex_pc = "returned"
               /\ result = Err("CommandNotFound", pipeline[k].command)
               /\ Len(pipeline) = k
               /\ \A j \in Stages : j >= k => ~Spawned(j)

C3_Witness ==
    /\ n = 2
    /\ Len(pipeline) = 1
    /\ pipeline[1].command = Nope
    /\ pipeline[1].stderr_redirect # NoPath
    /\ result = Err("CommandNotFound", Nope)

\* C4: once a stage has returned Exit, run has returned Exit and no stage
\* after that one was handled or spawned, wherever the stage stands.
C4_ExitStopsPipeline ==
    \A k \in DOMAIN log :
        log[k] = "Exit"
            => /\ ex_pc = "returned"
               /\ result = Ok("Exit")
               /\ Len(pipeline) = k
               /\ \A j \in Stages : j > k => ~Spawned(j)

C4_Witness ==
    /\ n = 3
    /\ Len(log) = 2
    /\ log[2] = "Exit"
    /\ ex_pc = "returned"

\* the step hands a new stage to handle_builtin or handle_external
HandlesStage == Len(pipeline') = Len(pipeline) + 1

\* C5: when a builtin stage fails and has a stderr redirect target, the step
\* that handles the stage leaves the failure's message appended to the target
\* (after the truncation a non-append redirect does), gives the stage the
\* status Continue, does not make run return, and the loop goes on to the
\* stages after it.
C5_FailedBuiltinRecovered ==
    [][ HandlesStage =>
          LET cmd == pipeline'[Len(pipeline')]
              target == cmd.stderr_redirect
              kept == IF cmd.stderr_redirect_append /\ fs[target].kind = "file"
                      THEN fs[target].data ELSE << >>
          IN  ( /\ get_builtin(cmd.command)
                /\ Openable(cmd)
                /\ target # NoPath
                /\ Executed(cmd).res.status = "Err" )
              => /\ log' = Append(log, "Continue")
                 /\ fs'[target] = File(kept \o Display(Executed(cmd).res) \o <<NewLine>>)
                 /\ result' = NoResult
                 /\ ex_pc' = "loop"
                 /\ previous_output' = PSNone ]_vars

C5_Witness ==
    /\ Len(log) = 2
    /\ pipeline[1].command = Type
    /\ pipeline[1].stderr_redirect # NoPath
    /\ Openable(pipeline[1])
    /\ log[1] = "Continue"
    /\ ex_pc = "returned"
    /\ result = Ok("Continue")

\* C6: when a builtin stage fails and has no stderr redirect target, run has
\* returned that very failure and no stage after the failing one was handled
\* or spawned.
C6_FailedBuiltinPropagates ==
    \A k \in DOMAIN pipeline :
        ( /\ get_builtin(pipeline[k].command)
          /\ Openable(pipeline[k])
          /\ pipeline[k].stderr_redirect = NoPath
          /\ Executed(pipeline[k]).res.status = "Err" )
        => /\ ex_pc = "returned"
           /\ result = Executed(pipeline[k]).res
           /\ Len(pipeline) = k
           /\ \A j \in Stages : j > k => ~Spawned(j)

C6_Witness ==
    /\ n = 2
    /\ Len(pipeline) = 1
    /\ pipeline[1].command = Type
    /\ pipeline[1].stderr_redirect = NoPath
    /\ result = Err("TypeNotFound", Nope)

\* C7 as claimed: main ends only when run returned Exit or readline returned
\* end-of-input.
C7_EndsOnlyByExitOrEof ==
    main_pc = "ended" => \/ rl = "Line" /\ result.status = "Exit"
                         \/ rl = "Eof"

\* C7 amended: a failure run returns is printed and main goes on to read the
\* next line; main ends only when run returned Exit, when readline returned
\* end-of-input, or when readline failed with an error other than an interrupt.
C7_FailureNeverEndsLoop ==
    [][ reads' = reads + 1 =>
          /\ result'.status = "Err"
                => /\ main_pc' = "readline"
                   /\ err_out' = Append(err_out, Display(result'))
          /\ main_pc' = "ended"
                => \/ rl' = "Line" /\ result'.status = "Exit"
                   \/ rl' = "Eof"
                   \/ rl' = "Error" ]_vars

C7_Witness ==
    /\ main_pc = "readline"
    /\ Len(err_out) >= 1
    /\ rl = "Line"
    /\ result.status = "Continue"

\* C8: when parse_input has split the tokens, no token that holds a pipe
\* character appended after an unquoted backslash is a point at which the
\* split starts a new stage.
C8_EscapedPipeNeverSeparates ==
    tk_pc = "parsed" => \A i \in SplitPoints(tz.tokens) : ~tz.tokens_esc[i]

IsBlank(line) == \A i \in DOMAIN line : line[i] \in WhiteSpace

\* C9: for an input that is empty or holds only whitespace, tokenize returns
\* no token and parse_input returns no stage.
C9_BlankInputParsesToNothing ==
    IsBlank(input) => /\ tk_pc \in {"split", "parsed"} => tz.tokens = << >>
                      /\ tk_pc = "parsed" => commands = << >>

C9_Witness ==
    /\ tk_pc = "parsed"
    /\ Len(input) >= 2
    /\ IsBlank(input)
    /\ \E i, j \in DOMAIN input : input[i] # input[j]

\* C10: in state InSingleQuote a single quote leads to Normal and leaves the
\* token being built as it is; every other character is appended to it
\* unchanged and the state stays InSingleQuote; no token is emitted either way.
C10_SingleQuoteLiteral ==
    [][ (tk_pc = "tokenize" /\ tz.state = "InSingleQuote" /\ tz.chars # << >>) =>
          LET c == Head(tz.chars) IN
          /\ tz'.tokens = tz.tokens
          /\ tz'.chars = Tail(tz.chars)
          /\ IF c = SingleQuote
             THEN tz'.state = "Normal" /\ tz'.current_token = tz.current_token
             ELSE tz'.state = "InSingleQuote"
                  /\ tz'.current_token = Append(tz.current_token, c) ]_vars

C10_Witness ==
    /\ tz.state = "InSingleQuote"
    /\ tz.current_token = <<BackSlash, " ", Pipe, DoubleQuote>>

\* C11: in state InDoubleQuote a backslash is left out of the token exactly
\* when the character after it is a double quote or a backslash, and that
\* character is then appended as it is and the state is InDoubleQuote again;
\* a backslash before any other character, or before the end of the input, is
\* appended itself and the state stays InDoubleQuote.
C11_DoubleQuoteBackslash ==
    [][ (tk_pc = "tokenize" /\ tz.chars # << >>) =>
          LET c == Head(tz.chars)
              rest == Tail(tz.chars)
          IN  /\ (tz.state = "InDoubleQuote" /\ c = BackSlash) =>
                    /\ tz'.tokens = tz.tokens
                    /\ IF rest # << >> /\ Head(rest) \in {DoubleQuote, BackSlash}
                       THEN /\ tz'.current_token = tz.current_token
                            /\ tz'.state = "EscapedInDoubleQuote"
                       ELSE /\ tz'.current_token = Append(tz.current_token, BackSlash)
                            /\ tz'.state = "InDoubleQuote"
              /\ tz.state = "EscapedInDoubleQuote" =>
                    /\ tz'.tokens = tz.tokens
                    /\ tz'.current_token = Append(tz.current_token, c)
                    /\ tz'.state = "InDoubleQuote" ]_vars

C11_Witness ==
    /\ tz.state = "InDoubleQuote"
    /\ tz.current_token = <<BackSlash, "a", DoubleQuote>>
    /\ tz.chars = << >>

\* the line is one empty quoted string with nothing but whitespace around it
EmptyQuotesAlone(line) ==
    \E i \in DOMAIN line :
        /\ i + 1 \in DOMAIN line
        /\ line[i] \in {SingleQuote, DoubleQuote}
        /\ line[i + 1] = line[i]
        /\ \A j \in DOMAIN line \ {i, i + 1} : line[j] \in WhiteSpace

\* C12: no token the tokenizer holds or returns is empty, and a line that is
\* one empty quoted string standing alone yields no token.
C12_TokensNonEmpty ==
    /\ \A i \in DOMAIN tz.tokens : tz.tokens[i] # << >>
    /\ (tk_pc \in {"split", "parsed"} /\ EmptyQuotesAlone(input)) => tz.tokens = << >>

C12_Witness ==
    /\ tk_pc = "parsed"
    /\ input = <<" ", DoubleQuote, DoubleQuote, " ">>

\* C13: a step of the tokenizer emits a token only when it reads a whitespace
\* or pipe character in state Normal, or at the end of the input; every other
\* step keeps the emitted tokens and only extends the token being built, so
\* quoted and unquoted pieces with no such character between them end up in
\* one token.
C13_TokenBoundaries ==
    [][ (tk_pc = "tokenize" /\ tz.chars # << >>) =>
          LET c == Head(tz.chars)
              boundary == tz.state = "Normal" /\ c \in WhiteSpace \cup {Pipe}
          IN  ~boundary => /\ tz'.tokens = tz.tokens
                           /\ IsPrefix(tz.current_token, tz'.current_token) ]_vars

C13_Witness ==
    /\ tk_pc = "split"
    /\ input = <<"a", SingleQuote, Pipe, SingleQuote, "a">>
    /\ tz.tokens = << <<"a", Pipe, "a">> >>

(***************************************************************************)
(* The segments of a token sequence and the part each token plays in its   *)
(* segment, stated without the parser.                                     *)
(***************************************************************************)
\* the k-th smallest element of a set of numbers
Nth(S, k) == CHOOSE i \in S : Cardinality({j \in S : j < i}) = k - 1

IsPipeToken(tok) == tok = <<Pipe>>

\* the positions at which a non-empty segment starts
SegmentStarts(toks) ==
    {i \in DOMAIN toks : ~IsPipeToken(toks[i]) /\ (i = 1 \/ IsPipeToken(toks[i - 1]))}

SegmentEnd(toks, i) ==
    CHOOSE j \in i..Len(toks) :
        /\ \A m \in i..j : ~IsPipeToken(toks[m])
        /\ j = Len(toks) \/ IsPipeToken(toks[j + 1])

\* the non-empty segments, in textual order
Segments(toks) ==
    [k \in 1..Cardinality(SegmentStarts(toks)) |->
        LET i == Nth(SegmentStarts(toks), k) IN SubSeq(toks, i, SegmentEnd(toks, i))]

StdoutTruncateOps == { <<">">>, <<"1", ">">> }
StdoutAppendOps == { <<">", ">">>, <<"1", ">", ">">> }
StderrTruncateOps == { <<"2", ">">> }
StderrAppendOps == { <<"2", ">", ">">> }
StdoutOps == StdoutTruncateOps \cup StdoutAppendOps
StderrOps == StderrTruncateOps \cup StderrAppendOps

\* the part token i plays in segment seg
RECURSIVE Role(_, _)
Role(seg, i) ==
    IF i = 1 THEN "command"
    ELSE IF Role(seg, i - 1) = "operator" THEN "target"
    ELSE IF seg[i] \in StdoutOps \cup StderrOps THEN "operator"
    ELSE "argument"

\* the positions of the operators of the set ops that have a target
Redirections(seg, ops) ==
    {i \in DOMAIN seg : Role(seg, i) = "operator" /\ seg[i] \in ops /\ i < Len(seg)}

Last(S) == CHOOSE i \in S : \A j \in S : j <= i

Parsed == tk_pc = "parsed"

\* C14: parse_input returns one stage descriptor for each non-empty run of
\* tokens between pipe tokens, in the order of the runs; leading, trailing and
\* consecutive pipe tokens add no stage.
C14_OneStagePerSegment ==
    Parsed =>
        LET segs == Segments(tz.tokens) IN
        /\ Len(commands) = Len(segs)
        /\ \A k \in DOMAIN segs : commands[k] = parse_command_line(segs[k])

C14_Witness ==
    /\ Parsed
    /\ tz.tokens = << <<Pipe>>, <<"a">>, <<Pipe>>, <<Pipe>>, <<"2">> >>
    /\ Len(commands) = 2
    /\ commands[1].command = <<"a">>
    /\ commands[2].command = <<"2">>

\* the positions of segment seg that hold arguments
ArgumentPositions(seg) == {i \in DOMAIN seg : Role(seg, i) = "argument"}

\* C15: the argument list of every stage is the tokens of its segment that
\* are not the command name, not a redirection operator and not the target an
\* operator consumed, in their order in the segment.
C15_ArgumentsInOrder ==
    Parsed =>
        LET segs == Segments(tz.tokens) IN
        \A k \in DOMAIN segs : k \in DOMAIN commands =>
            LET pos == ArgumentPositions(segs[k]) IN
            commands[k].args = [j \in 1..Cardinality(pos) |-> segs[k][Nth(pos, j)]]

C15_Witness ==
    /\ Parsed
    /\ tz.tokens = << <<"a">>, <<"2">>, <<">">>, <<"a">>, <<"a">> >>
    /\ commands[1].args = << <<"2">>, <<"a">> >>

\* C16: a stage has a stdout target exactly when its segment holds one of
\* >, 1>, >>, 1>> in operator position with a token after it, and its stdout
\* append flag is set exactly when the last of them is >> or 1>>; the same
\* holds for stderr with 2> and 2>>; no other token and no operator of the
\* other stream has an effect on a stream's target or flag.
C16_OperatorTable ==
    Parsed =>
        LET segs == Segments(tz.tokens) IN
        \A k \in DOMAIN segs : k \in DOMAIN commands =>
            LET out == Redirections(segs[k], StdoutOps)
                err == Redirections(segs[k], StderrOps)
            IN  /\ (commands[k].stdout_redirect # NoPath) <=> (out # {})
                /\ commands[k].stdout_redirect_append <=>
                      (out # {} /\ segs[k][Last(out)] \in StdoutAppendOps)
                /\ (commands[k].stderr_redirect # NoPath) <=> (err # {})
                /\ commands[k].stderr_redirect_append <=>
                      (err # {} /\ segs[k][Last(err)] \in StderrAppendOps)

C16_Witness ==
    /\ Parsed
    /\ tz.tokens = << <<"a">>, <<"1", ">", ">">>, <<"2">>, <<"2", ">">>, <<"a">> >>
    /\ commands[1].stdout_redirect = <<"2">>
    /\ commands[1].stdout_redirect_append
    /\ commands[1].stderr_redirect = <<"a">>
    /\ ~commands[1].stderr_redirect_append

\* C17: when a segment redirects a stream more than once, the stage holds the
\* target and the append flag of the last redirection of that stream.
C17_LastRedirectionWins ==
    Parsed =>
        LET segs == Segments(tz.tokens) IN
        \A k \in DOMAIN segs : k \in DOMAIN commands =>
            LET out == Redirections(segs[k], StdoutOps)
                err == Redirections(segs[k], StderrOps)
            IN  /\ Cardinality(out) > 1 =>
                      /\ commands[k].stdout_redirect = segs[k][Last(out) + 1]
                      /\ commands[k].stdout_redirect_append =
                            (segs[k][Last(out)] \in StdoutAppendOps)
                /\ Cardinality(err) > 1 =>
                      /\ commands[k].stderr_redirect = segs[k][Last(err) + 1]
                      /\ commands[k].stderr_redirect_append =
                            (segs[k][Last(err)] \in StderrAppendOps)

C17_Witness ==
    /\ Parsed
    /\ tz.tokens = << <<"a">>, <<">", ">">>, <<"a">>, <<">">>, <<"2">> >>
    /\ commands[1].stdout_redirect = <<"2">>
    /\ ~commands[1].stdout_redirect_append

\* the last token of the segment is an operator with nothing after it
Dangling(seg) == Role(seg, Len(seg)) = "operator"

\* C18: a segment that ends in a redirection operator with no token after it
\* still gives a stage; the stage is the one the segment without that operator
\* gives, and every segment after it gives its stage as well.
C18_DanglingOperatorDropped ==
    Parsed =>
        LET segs == Segments(tz.tokens) IN
        \A k \in DOMAIN segs : Dangling(segs[k]) =>
            /\ Len(commands) = Len(segs)
            /\ commands[k] = parse_command_line(SubSeq(segs[k], 1, Len(segs[k]) - 1))
            /\ \A j \in DOMAIN segs : j > k => commands[j].command = segs[j][1]

C18_Witness ==
    /\ Parsed
    /\ tz.tokens = << <<"a">>, <<"2", ">">>, <<"2">>, <<"2", ">", ">">>, <<Pipe>> >>
    /\ commands[1].stderr_redirect = <<"2">>
    /\ ~commands[1].stderr_redirect_append

\* C19: the command name of every stage parse_input returns is not empty and
\* is the first token of the stage's segment.
C19_CommandIsFirstToken ==
    Parsed =>
        LET segs == Segments(tz.tokens) IN
        \A k \in DOMAIN commands :
            /\ commands[k].command # << >>
            /\ k \in DOMAIN segs
            /\ commands[k].command = segs[k][1]

C19_Witness ==
    /\ Parsed
    /\ tz.tokens = << <<">">>, <<"a">>, <<Pipe>>, <<"2">>, <<"a">> >>
    /\ commands[1].command = <<">">>
    /\ commands[2].command = <<"2">>

\* C20: the step that handles a builtin stage writes what the builtin wrote
\* to the stdout redirect file when the stage has one, else to the buffer when
\* the stage is not the last, else to the standard output, and to none of the
\* other two; when the builtin succeeded and the loop goes on, the channel
\* state is Buffer exactly when the stage is not last and has no stdout
\* redirect, and None otherwise.
C20_BuiltinOutputDestination ==
    [][ HandlesStage =>
          LET cmd == pipeline'[Len(pipeline')]
              is_last == Len(pipeline') = n
              out == Executed(cmd).out
              target == cmd.stdout_redirect
              kept == IF cmd.stdout_redirect_append /\ fs[target].kind = "file"
                      THEN fs[target].data ELSE << >>
              succeeded == Executed(cmd).res.status = "Continue"
          IN  (get_builtin(cmd.command) /\ Openable(cmd)) =>
                /\ IF target # NoPath
                   THEN /\ fs'[target] = File(kept \o out)
                        /\ tty' = tty
                        /\ previous_output'.tag # "Buffer"
                   ELSE IF ~is_last
                   THEN /\ fs'[StdoutPath] = fs[StdoutPath]
                        /\ tty' = tty
                        /\ succeeded => previous_output' = PSBuffer(out)
                   ELSE /\ fs'[StdoutPath] = fs[StdoutPath]
                        /\ tty' = tty \o out
                        /\ previous_output'.tag # "Buffer"
                /\ succeeded =>
                      /\ ex_pc' = "loop"
                      /\ previous_output'.tag = "Buffer" <=> (~is_last /\ target = NoPath)
                      /\ previous_output'.tag \in {"Buffer", "None"} ]_vars

C20_Witness ==
    /\ ex_pc = "returned"
    /\ result = Ok("Continue")
    /\ Len(pipeline) = 2
    /\ pipeline[1].command = Echo
    /\ pipeline[1].stdout_redirect = StdoutPath
    /\ pipeline[1].stdout_redirect_append
    /\ pipeline[2].command = Echo
    /\ pipeline[2].stdout_redirect = NoPath
    /\ fs[StdoutPath] = File(<<"o", "h", NewLine>>)
    /\ tty = <<"h", NewLine>>

(***************************************************************************)
(* The history and cd builtins.                                            *)
(***************************************************************************)
\* the step is a call of the history builtin / of cd, with these arguments
CallsHistory == rl' = "history" /\ reads' = reads + 1
CallsCd == rl' = "cd" /\ reads' = reads + 1
CallArgs == pipeline'[1].args

\* C26: add_history_entry appends the line at the end of the history; a load
\* of a file appends the file's lines, in file order, after the entries
\* already there; a load that fails, and every other call, leaves the history
\* as it was.
C26_HistoryKeepsOrder ==
    [][ /\ (rl' = "add" /\ reads' = reads + 1) => history' = Append(history, input')
        /\ CallsHistory =>
              IF CallArgs # << >> /\ CallArgs[1] = FlagR /\ Len(CallArgs) >= 2
              THEN IF fs[CallArgs[2]].kind = "file"
                   THEN /\ history' = history \o lines(fs[CallArgs[2]].data, << >>)
                        /\ result' = Ok("Continue")
                   ELSE /\ history' = history
                        /\ result'.status = "Err"
              ELSE history' = history
        /\ CallsCd => history' = history ]_vars

C26_Witness ==
    /\ rl = "add"
    /\ history = << <<"x">>, <<"o">>, <<"y">> >>

\* the position of the last entry before the final one that begins with
\* history -a, or 0
LastEarlierAppend(entries) ==
    LET earlier == {i \in DOMAIN entries :
                       i < Len(entries) /\ starts_with(entries[i], HistoryAppendFlag)}
    IN  IF earlier = {} THEN 0 ELSE Last(earlier)

\* C27: writing the history with append=false leaves in the file exactly the
\* whole history, one entry per line; with append=true the file keeps
\* what it held and gets after it the entries that follow the last earlier
\* entry beginning with history -a, all entries when there is none.
C27_WriteHistory ==
    [][ (CallsHistory /\ Len(CallArgs) >= 2 /\ CallArgs[1] \in {FlagW, FlagA}
            /\ fs[CallArgs[2]].kind # "denied") =>
          LET path == CallArgs[2]
              before == IF fs[path].kind = "file" THEN fs[path].data ELSE << >>
              from == LastEarlierAppend(history)
          IN  /\ result' = Ok("Continue")
              /\ CallArgs[1] = FlagW => fs'[path] = File(write_lines(history))
              /\ CallArgs[1] = FlagA =>
                    fs'[path] = File(before \o
                                     write_lines(SubSeq(history, from + 1, Len(history))))
              /\ \A p \in Paths \ {path} : fs'[p] = fs[p] ]_vars

C27_Witness ==
    /\ rl = "history"
    /\ pipeline[1].args = <<FlagA, HistPath>>
    /\ Len(history) = 2
    /\ starts_with(history[1], HistoryAppendFlag)
    /\ history[2] = <<"x">>
    /\ fs[HistPath] = File(<<"o", NewLine, "x", NewLine>>)

\* the text is a non-negative number
IsNumeral(text) ==
    LET body == IF text # << >> /\ Head(text) = "+" THEN Tail(text) ELSE text
    IN  body # << >> /\ \A i \in DOMAIN body : IsDigit(body[i])

NumeralValue(text) ==
    digits_value(IF Head(text) = "+" THEN Tail(text) ELSE text, 0)

\* the lines of the last k entries, each with its position in the history
LastLines(entries, k) ==
    LET shown == IF k > Len(entries) THEN Len(entries) ELSE k
    IN  history_lines(entries, Len(entries) - shown + 1)

\* what the claim says of a listing call with these arguments
ListsAsClaimed(args) ==
    IF args = << >>
    THEN tty' = LastLines(history, Len(history)) /\ result' = Ok("Continue")
    ELSE IF IsNumeral(args[1])
    THEN tty' = LastLines(history, NumeralValue(args[1])) /\ result' = Ok("Continue")
    ELSE tty' = << >> /\ result' = Err("HistoryInvalidArg", args[1])

\* C28 as stated: the history builtin prints every entry without arguments,
\* the last min(n, length) entries with a number n, each with its 1-based
\* position, and fails with an invalid numeric argument, printing nothing,
\* for every other argument.
C28_HistoryListing ==
    [][ CallsHistory => ListsAsClaimed(CallArgs) ]_vars

\* C28, amended: the same, for a first argument that is not one of the flags
\* -w, -a, -r.
C28_HistoryListingUnlessFlag ==
    [][ (CallsHistory /\ (CallArgs = << >> \/ CallArgs[1] \notin {FlagW, FlagA, FlagR}))
          => ListsAsClaimed(CallArgs) ]_vars

C28_Witness ==
    /\ rl = "history"
    /\ pipeline[1].args = << <<"1">> >>
    /\ history = << <<"x">>, <<"y">> >>
    /\ tty = <<" ", " ", " ", " ", "2", " ", " ", "y", NewLine>>

\* C29: cd to a directory that cannot be entered fails with directory not
\* found and leaves the working directory as it was; cd without arguments
\* succeeds and leaves it as it was.
C29_CdFailureKeepsCwd ==
    [][ CallsCd =>
          /\ CallArgs = << >> => (result' = Ok("Continue") /\ cwd' = cwd)
          /\ (CallArgs # << >> /\ CallArgs[1] \notin Directories \cup {Tilde}) =>
                (result' = Err("DirectoryNotFound", CallArgs[1]) /\ cwd' = cwd)
          /\ result'.status = "Err" =>
                (result'.kind = "DirectoryNotFound" /\ cwd' = cwd) ]_vars

C29_Witness ==
    /\ rl = "cd"
    /\ pipeline[1].args = << MissingDir >>
    /\ result = Err("DirectoryNotFound", MissingDir)
    /\ cwd = Dir
    /\ reads = 2

(***************************************************************************)
(* The session: redirections to one file, and the history file at the end. *)
(***************************************************************************)
\* the step reads a line whose first stage is a builtin that redirects its
\* stdout to a file that can be opened
RedirectedRun ==
    /\ rl' = "Line" /\ reads' = reads + 1
    /\ commands' # << >>
    /\ get_builtin(commands'[1].command)
    /\ commands'[1].stdout_redirect # NoPath
    /\ fs[commands'[1].stdout_redirect].kind # "denied"

\* what the builtin of that run writes to its stdout
RunOutput == builtin_execute(commands'[1].command, commands'[1].args, fs, history').out

C30_HistoryFlushedAtEnd ==
    ( /\ main_pc = "ended"
      /\ histfile # NoPath
      /\ (rl = "Eof" \/ result = Ok("Exit")) )
    => fs[histfile] = File(write_lines(history))

(***************************************************************************)
(* External stages: stdin, piping forward, waiting.                        *)
(***************************************************************************)
\* the step spawns the process of the stage just taken from the pipeline
Spawns(k) ==
    /\ k = Len(pipeline') /\ pipeline' # pipeline
    /\ children[k].st = "none" /\ children'[k].st = "running"

\* C22: the stdin of a spawned external stage is the output pipe of the
\* previous process when the previous stage left a process, a pipe into which
\* the executor writes the buffered bytes when it left a buffer, and the
\* parent's stdin when there is no previous stage.
C22_ExternalStdin ==
    [][ \A k \in Stages : Spawns(k) =>
          /\ previous_output.tag = "Process" =>
                /\ previous_output.child = k - 1
                /\ children'[k].stdin = "pipe"
                /\ pipes'[k - 1].reader = "child"
                /\ children[k - 1].stdout = "pipe"
                /\ pipes'[k - 1].data = pipes[k - 1].data
          /\ previous_output.tag = "Buffer" =>
                /\ children'[k].stdin = "pipe"
                /\ pipes'[k - 1] = [data |-> << >>, writer |-> "exec", reader |-> "child"]
                /\ ex_pc' = "write"
                /\ wbuf' = previous_output.data
          /\ k = 1 => children'[k].stdin = "inherit" ]_vars

C22_Witness ==
    /\ Len(pipeline) = 3
    /\ children[1].stdin = "inherit"
    /\ children[2].stdin = "pipe" /\ pipes[1].writer = "child" /\ pipes[1].reader = "child"
    /\ get_builtin(pipeline[2].command) = FALSE
    /\ children[3].st = "running"

\* the step ends handle_external for a stage whose process was spawned
EndsExternal(k) ==
    /\ k = Len(pipeline')
    /\ children'[k].st # "none"
    /\ \/ ex_pc = "loop" /\ pipeline' # pipeline
       \/ ex_pc \in {"write", "wait"}
    /\ ex_pc' \in {"loop", "returned"}

\* C23: when handle_external ends for a spawned stage that is not the last
\* and has no stdout redirect, the channel state is Process of that stage
\* and the stage has not been waited for; for every other spawned stage the
\* process has exited and been waited for, and the channel state is None.
C23_PipesForwardOrWaits ==
    [][ \A k \in Stages : EndsExternal(k) =>
          IF k # n /\ pipeline'[k].stdout_redirect = NoPath
          THEN /\ ex_pc' = "loop"
               /\ previous_output' = PSProcess(k)
               /\ ~children'[k].waited
          ELSE /\ children'[k].st = "exited"
               /\ children'[k].waited
               /\ previous_output' = PSNone ]_vars

\* the stages whose process is running
RunningStages == {k \in Stages : Running(k)}

\* C24 as stated: while run has not returned, the processes of at most two
\* stages are running.
C24_AtMostTwoRunning ==
    ex_pc # "returned" => Cardinality(RunningStages) <= 2

\* C24, amended: while run has not returned, a stage before the one being
\* handled whose process is still running is a stage that pipes forward (no
\* stdout redirect); every process of a stage that does not pipe forward
\* has exited before the next stage is taken.
C24_OnlyPipingStagesKeepRunning ==
    ex_pc # "returned" =>
        \A k \in 1..Len(pipeline) :
            (Running(k) /\ k < Len(pipeline)) => pipeline[k].stdout_redirect = NoPath

C24_Witness ==
    /\ ex_pc = "wait"
    /\ Len(pipeline) = 3
    /\ RunningStages = {1, 2, 3}

\* the thread that called run can take no step
Blocked == ex_pc \notin {"off", "returned"} /\ ~ENABLED ExecutorStep

\* blocked in child.wait() right after the spawn of a stage that does not pipe
\* forward, or in the wait after the loop
BlockedInWait ==
    \/ /\ ex_pc = "wait"
       /\ Running(Len(pipeline))
       /\ ~creates_pipe(pipeline[Len(pipeline)], Len(pipeline) = n)
    \/ /\ ex_pc = "loop" /\ Len(pipeline) = n
       /\ previous_output.tag = "Process" /\ Running(previous_output.child)

\* blocked in write_all: the stdin pipe of the new child is full and the
\* child has not closed it
BlockedInWrite ==
    /\ ex_pc = "write"
    /\ wbuf # << >>
    /\ Len(pipes[Len(pipeline) - 1].data) = PipeCap
    /\ pipes[Len(pipeline) - 1].reader = "child"

\* C25 as stated: the thread that called run is blocked only in a wait for
\* a process.
C25_BlocksOnlyInWait == Blocked => BlockedInWait

\* C25, amended: the thread that called run is blocked only in a wait for a
\* process or in the write of a buffer into a full stdin pipe.
C25_BlocksOnlyInWaitOrWrite == Blocked => (BlockedInWait \/ BlockedInWrite)

C25_Witness ==
    /\ Blocked
    /\ BlockedInWrite
    /\ get_builtin(pipeline[Len(pipeline) - 1].command)

(***************************************************************************)
(* Append flags of the stage descriptors.                                  *)
(***************************************************************************)
\* C39: in every stage descriptor parse_input returns, an append flag is
\* true only if the target of the same stream is present.
C39_AppendImpliesTarget ==
    \A k \in DOMAIN commands :
        /\ commands[k].stdout_redirect_append => commands[k].stdout_redirect # NoPath
        /\ commands[k].stderr_redirect_append => commands[k].stderr_redirect # NoPath

C39_Witness ==
    /\ Parsed
    /\ tz.tokens = << <<"a">>, <<"2", ">", ">">>, <<"2">>, <<">", ">">> >>
    /\ commands[1].stderr_redirect_append
    /\ commands[1].stderr_redirect = <<"2">>
    /\ ~commands[1].stdout_redirect_append
    /\ commands[1].stdout_redirect = NoPath

(***************************************************************************)
(* Input that ends inside a quote or after a backslash.                    *)
(***************************************************************************)
\* the input has been read to its end inside an open quote or right after a
\* backslash
EndsUnclosed == tk_pc = "tokenize" /\ tz.chars = << >> /\ tz.state # "Normal"

\* C33: when the input ends inside an open quote or right after a backslash,
\* tokenize still returns: the text accumulated so far becomes the last token
\* if it is not empty and the tokens emitted before stay as they were; a
\* backslash that ends the input outside quotes adds no character.
C33_UnclosedInputStillTokenizes ==
    [][ /\ EndsUnclosed =>
            /\ tk_pc' = "split"
            /\ tz'.tokens = IF tz.current_token # << >>
                            THEN Append(tz.tokens, tz.current_token)
                            ELSE tz.tokens
        /\ (tk_pc = "tokenize" /\ tz.chars = <<BackSlash>> /\ tz.state = "Normal") =>
            /\ tz'.state = "Escaped"
            /\ tz'.current_token = tz.current_token
            /\ tz'.tokens = tz.tokens ]_vars

C33_Witness ==
    /\ tk_pc = "split"
    /\ input = <<"a", " ", SingleQuote, "a", BackSlash>>
    /\ tz.state = "InSingleQuote"
    /\ tz.tokens = << <<"a">>, <<"a", BackSlash>> >>

(***************************************************************************)
(* Builtin stages and the state they are handed.                           *)
(***************************************************************************)
\* the step handles a builtin stage
HandlesBuiltin ==
    /\ ex_pc = "loop" /\ pipeline' # pipeline
    /\ get_builtin(pipeline'[Len(pipeline')].command)

\* the states a stage can be handed
IncomingStates ==
    {PSNone} \cup {PSProcess(k) : k \in Stages}
             \cup {PSBuffer(d) : d \in {<< >>, <<"h", NewLine>>, <<"a">>}}

\* C31: what a builtin stage writes, the status it returns and the channel
\* state it produces are those it would give for every incoming state: None,
\* a process, or a buffer.
C31_BuiltinIgnoresInput ==
    [][ HandlesBuiltin =>
          \A s \in IncomingStates :
              LET k == Len(pipeline')
                  h == handle_builtin(pipeline'[k], s, k = n, fs, tty, history)
              IN  /\ log' = Append(log, h.res.status)
                  /\ tty' = h.tty
                  /\ fs' = h.fs
                  /\ IF h.res.status \in {"Err", "Exit"}
                     THEN ex_pc' = "returned" /\ result' = h.res
                     ELSE ex_pc' = "loop" /\ previous_output' = h.new_state ]_vars

C31_Witness ==
    /\ Len(pipeline) = 3
    /\ pipeline[1].command = Cat /\ children[1].st # "none"
    /\ pipeline[2].command = Echo
    /\ pipeline[3].command = Echo
    /\ ex_pc = "returned"
    /\ tty = <<"h", NewLine>>

\* the step handles a builtin stage with a stderr redirect to a file of its
\* own, both redirect targets can be opened and the builtin returns Ok
BuiltinSucceedsWithStderr ==
    /\ HandlesBuiltin
    /\ LET cmd == pipeline'[Len(pipeline')] IN
        /\ cmd.stderr_redirect # NoPath
        /\ cmd.stderr_redirect # cmd.stdout_redirect
        /\ fs[cmd.stderr_redirect].kind # "denied"
        /\ cmd.stdout_redirect # NoPath => fs[cmd.stdout_redirect].kind # "denied"
        /\ builtin_execute(cmd.command, cmd.args, fs, history).res.status # "Err"

LoopDone == ex_pc = "loop" /\ n > 0 /\ Len(pipeline) = n

\* C34: when the last stage of a pipeline has been handled, the carried state
\* is None, so the step after the loop waits for no process.
C34_NothingCarriedOutOfLoop ==
    [][ /\ LoopDone => previous_output = PSNone
        /\ (LoopDone /\ ex_pc' # ex_pc) =>
              /\ \A k \in Stages : children'[k].waited = children[k].waited
              /\ ex_pc' = "returned" /\ result' = Ok("Continue") ]_vars

C34_Witness ==
    /\ LoopDone
    /\ n = 3
    /\ children[1].st = "running" /\ children[2].st = "running"
    /\ children[3].waited

(***************************************************************************)
(* Stages that do not pipe forward.                                        *)
(***************************************************************************)
\* stage k has been handled, is not the last, and does not pipe forward: its
\* stdout is redirected, or it is a builtin whose failure was recovered
NoForward(k) ==
    /\ ex_pc = "loop" /\ k = Len(pipeline) /\ k >= 1 /\ k < n
    /\ \/ pipeline[k].stdout_redirect # NoPath
       \/ /\ get_builtin(pipeline[k].command)
          /\ Executed(pipeline[k]).res.status = "Err"

\* C36: after a stage that is not the last and does not pipe forward, the
\* next stage is handed state None and no pipe holds bytes of the stage; an
\* external next stage is spawned with the parent's stdin and nothing is
\* written to it.
C36_NoForwardLeavesNone ==
    [][ \A k \in Stages : NoForward(k) =>
          /\ previous_output = PSNone
          /\ pipes[k] = NoPipe
          /\ Spawns(k + 1) =>
                /\ children'[k + 1].stdin = "inherit"
                /\ ex_pc' # "write"
                /\ pipes'[k] = NoPipe ]_vars

C36_Witness ==
    /\ Len(pipeline) = 2
    /\ pipeline[1].command = Type /\ pipeline[1].args = << Echo, Nope >>
    /\ pipeline[1].stdout_redirect = NoPath
    /\ log[1] = "Continue"
    /\ pipeline[2].command = Cat
    /\ children[2].st = "running" /\ children[2].stdin = "inherit"
    /\ children[2].got = << >>

(***************************************************************************)
(* Failures before a stage starts.                                         *)
(***************************************************************************)
\* the step takes stage k from the pipeline
Takes(k) == ex_pc = "loop" /\ pipeline' # pipeline /\ k = Len(pipeline')

\* C37: a step that takes an external stage whose command cannot be resolved
\* leaves every file as it was: no redirect target of the stage is created,
\* truncated or written.
C37_UnresolvedTouchesNoFile ==
    [][ \A k \in Stages :
          (Takes(k) /\ pipeline'[k].command \notin (Builtins \cup Executables))
              => fs' = fs ]_vars

C37_Witness ==
    /\ ex_pc = "returned"
    /\ Len(pipeline) = 2
    /\ pipeline[2].command = Nope
    /\ pipeline[2].stdout_redirect = StdoutPath /\ ~pipeline[2].stdout_redirect_append
    /\ pipeline[2].stderr_redirect = StderrPath
    /\ NoRedirect(pipeline[1])
    /\ fs[StdoutPath] = File(<<"o">>)
    /\ fs[StderrPath] = AbsentFile

\* the redirect target of the stage whose opening fails first, or NoPath
FailingTarget(cmd) ==
    IF cmd.stdout_redirect # NoPath /\ fs[cmd.stdout_redirect].kind = "denied"
    THEN cmd.stdout_redirect
    ELSE IF cmd.stderr_redirect # NoPath /\ fs[cmd.stderr_redirect].kind = "denied"
    THEN cmd.stderr_redirect
    ELSE NoPath

\* C38: a step that takes a stage whose command is found and one of whose
\* redirect targets cannot be opened makes run return the file-open error
\* for that target; nothing is written to the shell's stdout, no process is
\* spawned, the pipeline is not walked further and the stderr target of the
\* stage is left as it was.
C38_OpenFailureStopsRun ==
    [][ \A k \in Stages :
          LET cmd == pipeline'[k] IN
          ( /\ Takes(k)
            /\ cmd.command \in Builtins \cup Executables
            /\ FailingTarget(cmd) # NoPath )
          => /\ ex_pc' = "returned"
             /\ result' = Err("FileOpen", FailingTarget(cmd))
             /\ log' = Append(log, "Err")
             /\ tty' = tty
             /\ children' = children
             /\ cmd.stderr_redirect # NoPath =>
                    fs'[cmd.stderr_redirect] = fs[cmd.stderr_redirect] ]_vars

C38_Witness ==
    /\ ex_pc = "returned"
    /\ n = 2 /\ Len(pipeline) = 1
    /\ pipeline[1].command = Echo
    /\ pipeline[1].stdout_redirect = StdoutPath
    /\ pipeline[1].stderr_redirect = StderrPath
    /\ fs[StdoutPath] = DeniedFile
    /\ fs[StderrPath] = AbsentFile
    /\ result = Err("FileOpen", StdoutPath)
    /\ tty = << >>

(***************************************************************************)
(* history -a in a session.                                                *)
(***************************************************************************)
\* the step enters the line history -a H
AppendsToSessionFile ==
    /\ reads' = reads + 1
    /\ input' = HistoryAppendFlag \o <<" ">> \o HistPath

\* C40: after each history -a H of a session that started with H empty, H
\* holds every history entry recorded so far, once and in order.
C40_AppendWritesEachEntryOnce ==
    [][ AppendsToSessionFile => fs'[HistPath] = File(write_lines(history')) ]_vars

(***************************************************************************)
(* Termination of run.                                                     *)
(***************************************************************************)
\* every external program of the pipeline reads its stdin to end-of-input,
\* writes what it read and exits
AllReadToEnd == \A k \in DOMAIN commands : commands[k].command \in Builtins \cup {Cat}

\* C35: run eventually returns for every pipeline whose external programs
\* read their stdin to end-of-input, write their output and exit.
C35_RunReturns == AllReadToEnd => <>(ex_pc = "returned")

====
